---- MODULE Spec2Model ----
(***************************************************************************)
(* A model of the allocation layer of gvu: the sub-buffer arena            *)
(* (SubBufferManager), the descriptor pool manager, the object cache       *)
(* (Cache_t over DescriptorSetLayoutCreateInfo) and the buffer/image       *)
(* memory cache (MemoryCache).  Each subsystem has its own specification;  *)
(* the variables of the other subsystems stay at their initial value.      *)
(***************************************************************************)
EXTENDS Integers, Sequences, FiniteSets, TLC

VARIABLES
    m_allocations,          \* SubBufferManager::m_allocations (list of SubBuffer)
    m_allocationChunkSize,  \* SubBufferManager::m_allocationChunkSize
    bufferSize,             \* h->getBufferSize() of the backing buffer
    m_poolInfos,            \* DescriptorPoolManager::m_poolInfos (pool -> PoolInfo)
    m_setToPool,            \* DescriptorPoolManager::m_setToPool (set -> pool)
    m_createInfo_maxSets,   \* DescriptorPoolManager::m_createInfo.maxSets
    vkLiveSets,             \* backend: the sets live in each descriptor pool
    checkedOut,             \* caller: the sets allocated and not yet released
    peakCheckedOut,         \* history: the most sets checked out at one time so far
    lastPoolOp,             \* the last call on the pool manager and the pools it reset
    m_cache,                \* Cache_t::m_cache (descriptor -> object)
    lookupMode,             \* how the build's unordered_map compares a probe with a node
    vkObjects,              \* backend: the layout objects created and not destroyed
    firstHandle,            \* caller: the handle the first create(d) returned, per descriptor
    lastCreate,             \* the last create call: its descriptor and its outcome
    buffers,                \* SharedData::buffers, the registry of pooled buffers
    images,                 \* SharedData::images, the registry of pooled images
    lastMem,                \* the last call on the memory cache and its outcome
    m_textures,             \* TextureMap::m_textures (slot -> texture handle)
    m_textureInfo,          \* TextureMap::m_textureInfo (slot -> the texture its view shows)
    m_textureToIndex,       \* TextureMap::m_textureToIndex (texture handle -> slot)
    m_needsUpdate,          \* TextureMap::m_needsUpdate, the slots flagged dirty
    m_freeIndices,          \* TextureMap::m_freeIndices (vector used as a stack)
    lastTexOp,              \* the last call on the texture map and its outcome
    m_itr,                  \* BufferInfo::m_itr, the cursor of pushStorage
    lastPush,               \* the last pushStorage call: the bytes it wrote and its result
    legacy_poolInfos,       \* gvu/Managers DescriptorPoolManager::m_poolInfos (counters)
    legacy_setToPool,       \* gvu/Managers DescriptorPoolManager::m_setToPool
    lastLegacyOp            \* the last call on the legacy manager and the pools it reset

arenaVars == <<m_allocations, m_allocationChunkSize, bufferSize>>

poolVars == <<m_poolInfos, m_setToPool, m_createInfo_maxSets, vkLiveSets, checkedOut,
             peakCheckedOut, lastPoolOp>>

memVars == <<buffers, images, lastMem>>

cacheVars == <<m_cache, lookupMode, vkObjects, firstHandle, lastCreate>>

texVars == <<m_textures, m_textureInfo, m_textureToIndex, m_needsUpdate, m_freeIndices,
            lastTexOp>>

pushVars == <<m_itr, lastPush>>

legacyVars == <<legacy_poolInfos, legacy_setToPool, lastLegacyOp>>

vars == <<m_allocations, m_allocationChunkSize, bufferSize,
          m_poolInfos, m_setToPool, m_createInfo_maxSets, vkLiveSets, checkedOut,
          peakCheckedOut, lastPoolOp, m_cache, lookupMode, vkObjects, firstHandle, lastCreate,
          buffers, images, lastMem,
          m_textures, m_textureInfo, m_textureToIndex, m_needsUpdate, m_freeIndices,
          lastTexOp, m_itr, lastPush, legacy_poolInfos, legacy_setToPool, lastLegacyOp>>

\* what the operations of one subsystem leave alone
notArena == <<poolVars, cacheVars, memVars, texVars, pushVars, legacyVars>>

notPool == <<arenaVars, cacheVars, memVars, texVars, pushVars, legacyVars>>

notCache == <<arenaVars, poolVars, memVars, texVars, pushVars, legacyVars>>

notMem == <<arenaVars, poolVars, cacheVars, texVars, pushVars, legacyVars>>

notTex == <<arenaVars, poolVars, cacheVars, memVars, pushVars, legacyVars>>

\* pushStorage leaves the size of its buffer alone
notPush == <<arenaVars, poolVars, cacheVars, memVars, texVars, legacyVars>>

\* what the two pool managers, driven together, leave alone
notPoolPair == <<arenaVars, cacheVars, memVars, texVars, pushVars>>

(***************************************************************************)
(* Bounds of the model.                                                    *)
(***************************************************************************)
\* VkDeviceSize and size_t are 64-bit in the build; the model keeps the
\* wrap-around of unsigned arithmetic in a narrower word.
DeviceSizeBits == 6
\* the arena's list is not let grow beyond this many entries
MaxEntries == 3
\* the most descriptor pools the backend creates
MaxPools == 3
\* the most descriptor sets the backend holds at a time
MaxSets == 4

\* the objects a cache's backend creates before it fails
MaxObjects == 2
\* the buffers and images the allocator's memory holds
MaxResources == 3
\* maxTextures of TextureMap::init, the size of the texture array
MaxTextures == 4

DeviceSizeMod == 2 ^ DeviceSizeBits

\* sizes of the backing buffer and chunk sizes handed to setBuffer
BufferSizes == {8, 10}
ChunkSizes == {2, 4}

\* arguments of allocate: ordinary sizes and the largest value of
\* VkDeviceSize; alignments that divide the chunk size and one that does not
RequestSizes == {0, 1, 2, 3, DeviceSizeMod - 1}
Alignments == {1, 2, 3}

(***************************************************************************)
(* Unsigned arithmetic of VkDeviceSize / size_t.                           *)
(***************************************************************************)
UAdd(a, b) == (a + b) % DeviceSizeMod

USub(a, b) == (a + DeviceSizeMod - b) % DeviceSizeMod

\* BufferInfo::_roundUp: ((numToRound + multiple - 1) / multiple) * multiple
RoundUp(numToRound, multiple) ==
    ((USub(UAdd(numToRound, multiple), 1) \div multiple) * multiple) % DeviceSizeMod

(***************************************************************************)
(* The arena.  An entry is a SubBuffer owned by the list; refs is the      *)
(* number of owners outside the list, so use_count() = 1 + refs.           *)
(***************************************************************************)
SubBuffer(aoff, asize, off, size, align, refs) ==
    [m_allocationOffset |-> aoff, m_allocationSize |-> asize,
     m_offset |-> off, m_size |-> size, m_alignment |-> align, refs |-> refs]

use_count(E) == 1 + E.refs

IsFreeAnyCount(E) == use_count(E) >= 1

\* "E.use_count() == 1": the list is the only owner
IsFree(E) == use_count(E) = 1

InsertAt(s, i, e) == SubSeq(s, 1, i - 1) \o <<e>> \o SubSeq(s, i, Len(s))

RemoveAt(s, i) == SubSeq(s, 1, i - 1) \o SubSeq(s, i + 1, Len(s))

\* setBuffer(h, allocationChunkSize) on a fresh manager
SetBufferList(size) == <<SubBuffer(0, size, 0, size, 1, 0)>>

RECURSIVE MergeForwardDropping(_, _)
MergeForwardDropping(allocs, a) ==
    IF a + 1 > Len(allocs) THEN allocs
    ELSE IF IsFree(allocs[a + 1])
         THEN MergeForwardDropping(RemoveAt(allocs, a + 1), a)
         ELSE allocs

\* _mergeForward(a): fuse the entries after a into a while they are free
RECURSIVE MergeForward(_, _)
MergeForward(allocs, a) ==
    IF a > Len(allocs) THEN allocs
    ELSE IF a + 1 > Len(allocs) THEN allocs
    ELSE LET A == allocs[a]
             B == allocs[a + 1]
         IN IF IsFree(B)
               /\ UAdd(A.m_allocationOffset, A.m_allocationSize) = B.m_allocationOffset
            THEN LET A2 == [A EXCEPT !.m_allocationSize = UAdd(A.m_allocationSize, B.m_allocationSize),
                                     !.m_size = UAdd(A.m_allocationSize, B.m_allocationSize)]
                 IN MergeForward(RemoveAt([allocs EXCEPT ![a] = A2], a + 1), a)
            ELSE allocs

\* the body of allocate's loop for the entry at position it, with the
\* running value of s; the loop walks from the last entry to the first
RECURSIVE AllocateScan(_, _, _, _, _)
AllocateScan(allocs, it, s, alignment, chunk) ==
    LET E0 == allocs[it]
    IN IF IsFree(E0)
       THEN LET merged == MergeForward(allocs, it)
                E == merged[it]
                firstByte == E.m_allocationOffset
                alignedBegin == RoundUp(firstByte, alignment)
                alignedEnd == RoundUp(UAdd(alignedBegin, s), alignment)
                lastByte == RoundUp(alignedEnd, chunk)
                allocationSize == USub(lastByte, firstByte)
                s2 == USub(alignedEnd, alignedBegin)
            IN IF E.m_allocationSize >= allocationSize
               THEN LET B == SubBuffer(E.m_allocationOffset, allocationSize,
                                       alignedBegin, s2, alignment, 1)
                        rest == USub(E.m_allocationSize, allocationSize)
                        restOff == UAdd(B.m_allocationOffset, B.m_allocationSize)
                        E2 == SubBuffer(restOff, rest, restOff, rest, 1, 0)
                        inserted == InsertAt([merged EXCEPT ![it] = E2], it, B)
                    IN [allocs |-> IF rest = 0 THEN RemoveAt(inserted, it + 1) ELSE inserted,
                        ok |-> TRUE, at |-> it]
               ELSE IF it = 1
                    THEN [allocs |-> merged, ok |-> FALSE, at |-> 0]
                    ELSE AllocateScan(merged, it - 1, s2, alignment, chunk)
       ELSE IF it = 1
            THEN [allocs |-> allocs, ok |-> FALSE, at |-> 0]
            ELSE AllocateScan(allocs, it - 1, s, alignment, chunk)

allocateUnaligned(allocs, s, alignment, chunk) ==
    AllocateScan(allocs, Len(allocs), s, 1, chunk)

allocateFirstEntryOnly(allocs, s, alignment, chunk) ==
    AllocateScan(allocs, 1, s, alignment, chunk)

\* SubBufferManager::allocate(s, alignment)
allocate(allocs, s, alignment, chunk) ==
    AllocateScan(allocs, Len(allocs), s, alignment, chunk)

MergeScanFirstOnly(allocs, it) ==
    IF IsFree(allocs[1]) THEN MergeForward(allocs, 1) ELSE allocs

\* the loop of mergeFreeAllocations from position it down to the first entry
RECURSIVE MergeScan(_, _)
MergeScan(allocs, it) ==
    LET merged == IF IsFree(allocs[it]) THEN MergeForward(allocs, it) ELSE allocs
    IN IF it = 1 THEN merged ELSE MergeScan(merged, it - 1)

\* SubBufferManager::mergeFreeAllocations()
mergeFreeAllocations(allocs) == MergeScan(allocs, Len(allocs))

Allocate ==
    /\ \E s \in RequestSizes, alignment \in Alignments :
         LET r == allocate(m_allocations, s, alignment, m_allocationChunkSize)
         IN /\ Len(r.allocs) <= MaxEntries
            /\ m_allocations' = r.allocs
    /\ UNCHANGED <<m_allocationChunkSize, bufferSize, notArena>>

\* the caller drops one reference to a handle it holds
ReleaseHandle ==
    /\ \E i \in 1 .. Len(m_allocations) :
         /\ m_allocations[i].refs >= 1
         /\ m_allocations' = [m_allocations EXCEPT ![i].refs = @ - 1]
    /\ UNCHANGED <<m_allocationChunkSize, bufferSize, notArena>>

MergeFreeAllocations ==
    /\ m_allocations' = mergeFreeAllocations(m_allocations)
    /\ UNCHANGED <<m_allocationChunkSize, bufferSize, notArena>>

NextArena ==
    \/ Allocate
    \/ ReleaseHandle
    \/ MergeFreeAllocations

\* setBuffer(h, allocationChunkSize) on a manager whose list is allocs, for
\* a buffer h of size bytes: the new free entry is pushed to the back
setBuffer(allocs, size) == Append(allocs, SubBuffer(0, size, 0, size, 1, 0))

\* setBuffer called again on the manager
SetBuffer ==
    /\ Len(m_allocations) < MaxEntries
    /\ \E size \in BufferSizes, chunk \in ChunkSizes :
         /\ m_allocations' = setBuffer(m_allocations, size)
         /\ m_allocationChunkSize' = chunk
         /\ bufferSize' = size
    /\ UNCHANGED notArena

\* the element types T of allocateTyped<T>: sizeof(T) and alignof(T), as
\* for unsigned char, a two byte scalar and an array of three unsigned char
ElementTypes ==
    {[size |-> 1, align |-> 1], [size |-> 2, align |-> 2], [size |-> 3, align |-> 1]}

\* the values of the parameter count of allocateTyped
Counts == {0, 1, 2, 3}

allocateTypedAlignof(allocs, T, count, chunk) ==
    allocate(allocs, (T.size * count) % DeviceSizeMod, T.align, chunk)

\* SubBufferManager::allocateTyped<T>(count): the list and the handle d of
\* allocate(sizeof(T) * count, sizeof(T)).  The assert reads d->offset();
\* when d is null a build without assertions returns the null handle, and
\* a build with assertions dereferences it, after which the program takes
\* no further step.
allocateTyped(allocs, T, count, chunk) ==
    allocate(allocs, (T.size * count) % DeviceSizeMod, T.size, chunk)

\* how allocateTyped ends once allocate has returned d: "assert(d->offset()
\* % sizeof(T) == 0); return d;".  With a handle the assert passes and the
\* handle is returned.  With the null handle a build without assertions
\* returns it, and a build with assertions calls offset() through the null
\* pointer, which is a fault.
AllocateTypedOutcomes(d) ==
    IF d.ok THEN {"handle"} ELSE {"null", "fault"}

AllocateTyped ==
    /\ \E T \in ElementTypes, count \in Counts :
         LET d == allocateTyped(m_allocations, T, count, m_allocationChunkSize)
         IN /\ Len(d.allocs) <= MaxEntries
            /\ m_allocations' = d.allocs
    /\ UNCHANGED <<m_allocationChunkSize, bufferSize, notArena>>

\* the arena with allocateTyped among its operations
NextArenaTyped ==
    \/ Allocate
    \/ AllocateTyped
    \/ ReleaseHandle
    \/ MergeFreeAllocations

\* the arena with setBuffer callable at any time
NextArenaSetBuffer ==
    \/ Allocate
    \/ ReleaseHandle
    \/ MergeFreeAllocations
    \/ SetBuffer

(***************************************************************************)
(* The descriptor pool manager (gvu/Core/Managers).  Pools and sets are    *)
(* backend handles; a set handle is free for the backend to hand out again *)
(* once its pool has been reset.                                           *)
(***************************************************************************)
PoolHandles == 1 .. MaxPools

\* the values of maxSetsPerPool handed to init, which takes any uint32_t
MaxSetsPerPoolValues == {0, 1, 2, 3}

SetHandles == 1 .. MaxSets

EmptyMap == [x \in {} |-> 0]

PoolOp(op, reset) == [op |-> op, reset |-> reset]

PoolInfo(maxSets) == [maxSets |-> maxSets, allocatedSets |-> {}, returnedSets |-> {}]

LiveSets == UNION {vkLiveSets[q] : q \in DOMAIN vkLiveSets}

HasRoomUpTo(i) == Cardinality(i.allocatedSets) <= i.maxSets

\* "i.allocatedSets.size() < i.maxSets"
HasRoom(i) == Cardinality(i.allocatedSets) < i.maxSets

AllReturnedButOne(i, maxSets) == Cardinality(i.returnedSets) >= maxSets - 1

AllReturnedAndMore(i, maxSets) == Cardinality(i.returnedSets) > maxSets

\* "i.returnedSets.size() == m_createInfo.maxSets"
AllReturned(i, maxSets) == Cardinality(i.returnedSets) = maxSets

ClearedAllocatedOnly(i) == [i EXCEPT !.allocatedSets = {}]

ClearedReturnedOnly(i) == [i EXCEPT !.returnedSets = {}]

\* resetPool: the pool's bookkeeping after the reset
Cleared(i) == [i EXCEPT !.allocatedSets = {}, !.returnedSets = {}]

\* resetPool: m_setToPool without the returned sets of the pool
ErasedReturned(map, i) ==
    [s \in (DOMAIN map) \ i.returnedSets |-> map[s]]

\* vkAllocateDescriptorSets succeeded on pool p and returned set
SetAllocated(infos, p, set) ==
    /\ m_poolInfos' = [infos EXCEPT ![p].allocatedSets = @ \cup {set}]
    /\ m_setToPool' = [s \in (DOMAIN m_setToPool) \cup {set} |->
                          IF s = set THEN p ELSE m_setToPool[s]]
    /\ checkedOut' = checkedOut \cup {set}
    /\ peakCheckedOut' = IF Cardinality(checkedOut') > peakCheckedOut
                         THEN Cardinality(checkedOut') ELSE peakCheckedOut

\* allocateDescriptorSet when a pool has room: the first such pool in the
\* iteration order of the unordered_map, which is any of them
AllocateFromPool ==
    /\ \E p \in DOMAIN m_poolInfos :
         /\ HasRoom(m_poolInfos[p])
         /\ \E set \in SetHandles \ LiveSets :
              /\ SetAllocated(m_poolInfos, p, set)
              /\ vkLiveSets' = [vkLiveSets EXCEPT ![p] = @ \cup {set}]
    /\ lastPoolOp' = PoolOp("allocateDescriptorSet", {})
    /\ UNCHANGED <<m_createInfo_maxSets, notPool>>

AllocateThrowsAfterNewPool ==
    /\ DOMAIN m_poolInfos # {}
    /\ Cardinality(DOMAIN m_poolInfos) < MaxPools
    /\ LET pool == Cardinality(DOMAIN m_poolInfos) + 1
       IN /\ m_poolInfos' = [q \in (DOMAIN m_poolInfos) \cup {pool} |->
                                IF q = pool THEN PoolInfo(m_createInfo_maxSets)
                                ELSE m_poolInfos[q]]
          /\ vkLiveSets' = [q \in (DOMAIN vkLiveSets) \cup {pool} |->
                               IF q = pool THEN {} ELSE vkLiveSets[q]]
    /\ lastPoolOp' = PoolOp("allocateDescriptorSet", {})
    /\ UNCHANGED <<m_setToPool, m_createInfo_maxSets, checkedOut, peakCheckedOut, notPool>>

\* allocateDescriptorSet when the backend rejects the set allocation from
\* the pool with room, or rejects the new pool in createNewPool: the error
\* propagates and nothing has been recorded
AllocateThrows ==
    /\ DOMAIN m_poolInfos # {}
    /\ lastPoolOp' = PoolOp("allocateDescriptorSet", {})
    /\ UNCHANGED <<m_poolInfos, m_setToPool, m_createInfo_maxSets, vkLiveSets, checkedOut,
                   peakCheckedOut, notPool>>

\* allocateDescriptorSet when no pool has room: createNewPool, then the
\* recursive call, whose backend allocation succeeds or throws
AllocateFromNewPool ==
    /\ \A p \in DOMAIN m_poolInfos : ~HasRoom(m_poolInfos[p])
    /\ Cardinality(DOMAIN m_poolInfos) < MaxPools
    /\ LET pool == Cardinality(DOMAIN m_poolInfos) + 1
           infos == [q \in (DOMAIN m_poolInfos) \cup {pool} |->
                        IF q = pool THEN PoolInfo(m_createInfo_maxSets)
                        ELSE m_poolInfos[q]]
           live == [q \in (DOMAIN vkLiveSets) \cup {pool} |->
                        IF q = pool THEN {} ELSE vkLiveSets[q]]
       IN \/ \E set \in SetHandles \ LiveSets :
               /\ HasRoom(infos[pool])
               /\ SetAllocated(infos, pool, set)
               /\ vkLiveSets' = [live EXCEPT ![pool] = @ \cup {set}]
          \/ /\ HasRoom(infos[pool])
             /\ m_poolInfos' = infos
             /\ vkLiveSets' = live
             /\ UNCHANGED <<m_setToPool, checkedOut, peakCheckedOut>>
    /\ lastPoolOp' = PoolOp("allocateDescriptorSet", {})
    /\ UNCHANGED <<m_createInfo_maxSets, notPool>>

\* allocateDescriptorSet when no pool has room and the pool createNewPool
\* makes has none either (maxSets = 0): every recursive call finds no room
\* and creates one more pool, until the backend rejects a pool and
\* createNewPool throws
AllocateRecurses ==
    /\ \A p \in DOMAIN m_poolInfos : ~HasRoom(m_poolInfos[p])
    /\ ~HasRoom(PoolInfo(m_createInfo_maxSets))
    /\ \E created \in 1 .. (MaxPools - Cardinality(DOMAIN m_poolInfos)) :
         LET pools == 1 .. (Cardinality(DOMAIN m_poolInfos) + created)
         IN /\ m_poolInfos' = [q \in pools |->
                                  IF q \in DOMAIN m_poolInfos THEN m_poolInfos[q]
                                  ELSE PoolInfo(m_createInfo_maxSets)]
            /\ vkLiveSets' = [q \in pools |->
                                 IF q \in DOMAIN vkLiveSets THEN vkLiveSets[q] ELSE {}]
    /\ lastPoolOp' = PoolOp("allocateDescriptorSet", {})
    /\ UNCHANGED <<m_setToPool, m_createInfo_maxSets, checkedOut, peakCheckedOut, notPool>>

\* releaseToPool(set); m_setToPool.at(set) throws for a set it does not hold
ReleaseToPool ==
    /\ \E set \in SetHandles :
         IF set \notin DOMAIN m_setToPool
         THEN /\ lastPoolOp' = PoolOp("releaseToPool", {})
              /\ UNCHANGED <<m_poolInfos, m_setToPool, vkLiveSets, checkedOut>>
         ELSE LET p == m_setToPool[set]
                  i == [m_poolInfos[p] EXCEPT !.returnedSets = @ \cup {set}]
              IN /\ checkedOut' = checkedOut \ {set}
                 /\ IF AllReturned(i, m_createInfo_maxSets)
                    THEN /\ m_poolInfos' = [m_poolInfos EXCEPT ![p] = Cleared(i)]
                         /\ m_setToPool' = ErasedReturned(m_setToPool, i)
                         /\ vkLiveSets' = [vkLiveSets EXCEPT ![p] = {}]
                         /\ lastPoolOp' = PoolOp("releaseToPool", {p})
                    ELSE /\ m_poolInfos' = [m_poolInfos EXCEPT ![p] = i]
                         /\ lastPoolOp' = PoolOp("releaseToPool", {})
                         /\ UNCHANGED <<m_setToPool, vkLiveSets>>
    /\ UNCHANGED <<m_createInfo_maxSets, peakCheckedOut, notPool>>

\* the second loop of resetAllAvailablePools over the pools of infos
Resettable(i, maxSets) ==
    AllReturned(i, maxSets) /\ Cardinality(i.allocatedSets) = maxSets

\* resetAllAvailablePools(false)
ResetAvailablePools ==
    /\ LET reset == {p \in DOMAIN m_poolInfos :
                        Resettable(m_poolInfos[p], m_createInfo_maxSets)}
       IN /\ m_poolInfos' = [p \in DOMAIN m_poolInfos |->
                                IF p \in reset THEN Cleared(m_poolInfos[p])
                                ELSE m_poolInfos[p]]
          /\ m_setToPool' = [s \in {x \in DOMAIN m_setToPool :
                                      ~(m_setToPool[x] \in reset
                                        /\ x \in m_poolInfos[m_setToPool[x]].returnedSets)}
                                |-> m_setToPool[s]]
          /\ vkLiveSets' = [p \in DOMAIN vkLiveSets |->
                               IF p \in reset THEN {} ELSE vkLiveSets[p]]
          /\ lastPoolOp' = PoolOp("resetAllAvailablePools", reset)
    /\ UNCHANGED <<m_createInfo_maxSets, checkedOut, peakCheckedOut, notPool>>

\* resetAllAvailablePools(true): every pool is reset and the map cleared;
\* the caller gives up every set it holds
ResetAllPools ==
    /\ m_poolInfos' = [p \in DOMAIN m_poolInfos |-> Cleared(m_poolInfos[p])]
    /\ m_setToPool' = EmptyMap
    /\ vkLiveSets' = [p \in DOMAIN vkLiveSets |-> {}]
    /\ checkedOut' = {}
    /\ lastPoolOp' = PoolOp("resetAllAvailablePools(true)", DOMAIN m_poolInfos)
    /\ UNCHANGED <<m_createInfo_maxSets, peakCheckedOut, notPool>>

\* isResetable(p), of the PoolInfo of p
isResetable(i) == Cardinality(i.returnedSets) = i.maxSets

\* allocatedSetsCount(p), of the PoolInfo of p: maxSets - returnedSets.size()
allocatedSetsCount(i) == i.maxSets - Cardinality(i.returnedSets)

NextPool ==
    \/ AllocateFromPool
    \/ AllocateThrows
    \/ AllocateFromNewPool
    \/ AllocateRecurses
    \/ ReleaseToPool
    \/ ResetAvailablePools
    \/ ResetAllPools

(***************************************************************************)
(* The legacy descriptor pool manager (gvu/Managers), which counts the     *)
(* sets of a pool instead of holding them, driven together with the one of *)
(* gvu/Core/Managers: both receive the same calls and the backend answers  *)
(* both alike, so a pool or a set has the same handle in both.             *)
(***************************************************************************)
\* the values of maxSetsPerPool for which allocateDescriptorSet returns
PositiveMaxSetsPerPoolValues == MaxSetsPerPoolValues \ {0}

\* PoolInfo of the legacy manager after createNewPool
LegacyPoolInfo(maxSets) ==
    [maxSets |-> maxSets, allocatedSets |-> 0, returnedSets |-> 0, sets |-> {}]

\* the sets the backend holds live in the pools of the legacy manager
LegacyLiveSets == UNION {legacy_poolInfos[q].sets : q \in DOMAIN legacy_poolInfos}

\* "i.allocatedSets < i.maxSets"
LegacyHasRoom(i) == i.allocatedSets < i.maxSets

\* "i.returnedSets == m_createInfo.maxSets"
LegacyAllReturned(i, maxSets) == i.returnedSets = maxSets

\* resetPool of the legacy manager: the pool's bookkeeping after the reset
LegacyCleared(i) == [i EXCEPT !.allocatedSets = 0, !.returnedSets = 0, !.sets = {}]

\* resetPool of the legacy manager: m_setToPool without the sets of the pool
LegacyErased(map, i) ==
    [s \in (DOMAIN map) \ i.sets |-> map[s]]

\* vkAllocateDescriptorSets succeeded on pool p of the legacy manager
LegacySetAllocated(infos, p, set) ==
    /\ legacy_poolInfos' = [infos EXCEPT ![p].allocatedSets = @ + 1,
                                         ![p].sets = @ \cup {set}]
    /\ legacy_setToPool' = [s \in (DOMAIN legacy_setToPool) \cup {set} |->
                               IF s = set THEN p ELSE legacy_setToPool[s]]

\* releaseToPool(set) of the legacy manager, which holds set
LegacyReleaseToPool(set) ==
    LET p == legacy_setToPool[set]
        i == [legacy_poolInfos[p] EXCEPT !.returnedSets = @ + 1]
    IN IF LegacyAllReturned(i, m_createInfo_maxSets)
       THEN /\ legacy_poolInfos' = [legacy_poolInfos EXCEPT ![p] = LegacyCleared(i)]
            /\ legacy_setToPool' = LegacyErased(legacy_setToPool, i)
            /\ lastLegacyOp' = PoolOp("releaseToPool", {p})
       ELSE /\ legacy_poolInfos' = [legacy_poolInfos EXCEPT ![p] = i]
            /\ lastLegacyOp' = PoolOp("releaseToPool", {})
            /\ UNCHANGED legacy_setToPool

\* the second loop of the legacy resetAllAvailablePools
LegacyResettable(i, maxSets) ==
    i.returnedSets = maxSets /\ i.allocatedSets = maxSets

\* isResetable(p) of the legacy manager, of the PoolInfo of p
LegacyIsResetable(i) == i.returnedSets = i.maxSets

\* allocatedSetsCount(p) of the legacy manager: maxSets - returnedSets; the
\* counter restarts at 0 when it reaches maxSets and so never exceeds it
LegacyAllocatedSetsCount(i) == i.maxSets - i.returnedSets

\* the two managers have created the same pools and report the same
\* allocatedSetsCount for each
SameReports ==
    /\ DOMAIN legacy_poolInfos = DOMAIN m_poolInfos
    /\ \A p \in DOMAIN m_poolInfos :
         LegacyAllocatedSetsCount(legacy_poolInfos[p]) = allocatedSetsCount(m_poolInfos[p])

\* the last call reset the same pools in both managers
SameResets == lastLegacyOp.reset = lastPoolOp.reset

\* the comparison of the two managers ends at their first difference
StillAlike == SameReports /\ SameResets

\* allocateDescriptorSet on both managers when a pool has room
PairAllocateFromPool ==
    /\ StillAlike
    /\ \E p \in DOMAIN m_poolInfos :
         /\ HasRoom(m_poolInfos[p])
         /\ LegacyHasRoom(legacy_poolInfos[p])
         /\ \E set \in SetHandles \ (LiveSets \cup LegacyLiveSets) :
              /\ SetAllocated(m_poolInfos, p, set)
              /\ vkLiveSets' = [vkLiveSets EXCEPT ![p] = @ \cup {set}]
              /\ LegacySetAllocated(legacy_poolInfos, p, set)
    /\ lastPoolOp' = PoolOp("allocateDescriptorSet", {})
    /\ lastLegacyOp' = PoolOp("allocateDescriptorSet", {})
    /\ UNCHANGED <<m_createInfo_maxSets, notPoolPair>>

\* allocateDescriptorSet on both managers when no pool has room:
\* createNewPool, then the recursive call
PairAllocateFromNewPool ==
    /\ StillAlike
    /\ \A p \in DOMAIN m_poolInfos : ~HasRoom(m_poolInfos[p])
    /\ \A p \in DOMAIN legacy_poolInfos : ~LegacyHasRoom(legacy_poolInfos[p])
    /\ Cardinality(DOMAIN m_poolInfos) < MaxPools
    /\ LET pool == Cardinality(DOMAIN m_poolInfos) + 1
           infos == [q \in (DOMAIN m_poolInfos) \cup {pool} |->
                        IF q = pool THEN PoolInfo(m_createInfo_maxSets)
                        ELSE m_poolInfos[q]]
           live == [q \in (DOMAIN vkLiveSets) \cup {pool} |->
                        IF q = pool THEN {} ELSE vkLiveSets[q]]
           legacy == [q \in (DOMAIN legacy_poolInfos) \cup {pool} |->
                         IF q = pool THEN LegacyPoolInfo(m_createInfo_maxSets)
                         ELSE legacy_poolInfos[q]]
       IN \E set \in SetHandles \ (LiveSets \cup LegacyLiveSets) :
               /\ SetAllocated(infos, pool, set)
               /\ vkLiveSets' = [live EXCEPT ![pool] = @ \cup {set}]
               /\ LegacySetAllocated(legacy, pool, set)
    /\ lastPoolOp' = PoolOp("allocateDescriptorSet", {})
    /\ lastLegacyOp' = PoolOp("allocateDescriptorSet", {})
    /\ UNCHANGED <<m_createInfo_maxSets, notPoolPair>>

\* releaseToPool(set) on both managers, for a set both hold in m_setToPool:
\* one the caller holds, or one it has released already
PairReleaseToPool ==
    /\ StillAlike
    /\ \E set \in (DOMAIN m_setToPool) \cap (DOMAIN legacy_setToPool) :
         /\ LET p == m_setToPool[set]
                i == [m_poolInfos[p] EXCEPT !.returnedSets = @ \cup {set}]
            IN /\ checkedOut' = checkedOut \ {set}
               /\ IF AllReturned(i, m_createInfo_maxSets)
                  THEN /\ m_poolInfos' = [m_poolInfos EXCEPT ![p] = Cleared(i)]
                       /\ m_setToPool' = ErasedReturned(m_setToPool, i)
                       /\ vkLiveSets' = [vkLiveSets EXCEPT ![p] = {}]
                       /\ lastPoolOp' = PoolOp("releaseToPool", {p})
                  ELSE /\ m_poolInfos' = [m_poolInfos EXCEPT ![p] = i]
                       /\ lastPoolOp' = PoolOp("releaseToPool", {})
                       /\ UNCHANGED <<m_setToPool, vkLiveSets>>
         /\ LegacyReleaseToPool(set)
    /\ UNCHANGED <<m_createInfo_maxSets, peakCheckedOut, notPoolPair>>

\* resetAllAvailablePools(false) on both managers
PairResetAvailablePools ==
    /\ StillAlike
    /\ LET reset == {p \in DOMAIN m_poolInfos :
                        Resettable(m_poolInfos[p], m_createInfo_maxSets)}
           legacy == {p \in DOMAIN legacy_poolInfos :
                         LegacyResettable(legacy_poolInfos[p], m_createInfo_maxSets)}
       IN /\ m_poolInfos' = [p \in DOMAIN m_poolInfos |->
                                IF p \in reset THEN Cleared(m_poolInfos[p])
                                ELSE m_poolInfos[p]]
          /\ m_setToPool' = [s \in {x \in DOMAIN m_setToPool :
                                      ~(m_setToPool[x] \in reset
                                        /\ x \in m_poolInfos[m_setToPool[x]].returnedSets)}
                                |-> m_setToPool[s]]
          /\ vkLiveSets' = [p \in DOMAIN vkLiveSets |->
                               IF p \in reset THEN {} ELSE vkLiveSets[p]]
          /\ lastPoolOp' = PoolOp("resetAllAvailablePools", reset)
          /\ legacy_poolInfos' = [p \in DOMAIN legacy_poolInfos |->
                                     IF p \in legacy THEN LegacyCleared(legacy_poolInfos[p])
                                     ELSE legacy_poolInfos[p]]
          /\ legacy_setToPool' = [s \in {x \in DOMAIN legacy_setToPool :
                                           ~(\E p \in legacy : x \in legacy_poolInfos[p].sets)}
                                     |-> legacy_setToPool[s]]
          /\ lastLegacyOp' = PoolOp("resetAllAvailablePools", legacy)
    /\ UNCHANGED <<m_createInfo_maxSets, checkedOut, peakCheckedOut, notPoolPair>>

\* resetAllAvailablePools(true) on both managers
PairResetAllPools ==
    /\ StillAlike
    /\ m_poolInfos' = [p \in DOMAIN m_poolInfos |-> Cleared(m_poolInfos[p])]
    /\ m_setToPool' = EmptyMap
    /\ vkLiveSets' = [p \in DOMAIN vkLiveSets |-> {}]
    /\ checkedOut' = {}
    /\ lastPoolOp' = PoolOp("resetAllAvailablePools(true)", DOMAIN m_poolInfos)
    /\ legacy_poolInfos' = [p \in DOMAIN legacy_poolInfos |->
                               LegacyCleared(legacy_poolInfos[p])]
    /\ legacy_setToPool' = EmptyMap
    /\ lastLegacyOp' = PoolOp("resetAllAvailablePools(true)", DOMAIN legacy_poolInfos)
    /\ UNCHANGED <<m_createInfo_maxSets, peakCheckedOut, notPoolPair>>

NextPoolPair ==
    \/ PairAllocateFromPool
    \/ PairAllocateFromNewPool
    \/ PairReleaseToPool
    \/ PairResetAvailablePools
    \/ PairResetAllPools

(***************************************************************************)
(* The object cache: Cache_t<DescriptorSetLayoutCreateInfo>.               *)
(***************************************************************************)
\* size_t is 64 bits wide; a value is kept as four 16-bit limbs, the least
\* significant first
Word64(n) == <<n % 65536, (n \div 65536) % 65536, 0, 0>>

Add64(a, b) ==
    LET s1 == a[1] + b[1]
        s2 == a[2] + b[2] + (s1 \div 65536)
        s3 == a[3] + b[3] + (s2 \div 65536)
        s4 == a[4] + b[4] + (s3 \div 65536)
    IN <<s1 % 65536, s2 % 65536, s3 % 65536, s4 % 65536>>

\* seed << 6
Shl6(a) ==
    [k \in 1 .. 4 |-> ((a[k] * 64) % 65536) + (IF k > 1 THEN a[k - 1] \div 1024 ELSE 0)]

\* seed >> 2
Shr2(a) ==
    [k \in 1 .. 4 |-> (a[k] \div 4) + (IF k < 4 THEN (a[k + 1] % 4) * 16384 ELSE 0)]

RECURSIVE XorBits(_, _, _)
XorBits(x, y, n) ==
    IF n = 0 THEN 0
    ELSE (((x % 2) + (y % 2)) % 2) + (2 * XorBits(x \div 2, y \div 2, n - 1))

Xor64(a, b) == [k \in 1 .. 4 |-> XorBits(a[k], b[k], 16)]

\* 0x9e3779b9
HashGolden == <<31161, 40503, 0, 0>>

\* hash_combine: seed ^= hasher(v) + 0x9e3779b9 + (seed<<6) + (seed>>2),
\* with std::hash of an integer being the integer
hash_combine(seed, v) ==
    Xor64(seed, Add64(Add64(Add64(Word64(v), HashGolden), Shl6(seed)), Shr2(seed)))

RECURSIVE HashBindings(_, _, _)
HashBindings(h, bindings, i) ==
    IF i > Len(bindings) THEN h
    ELSE LET b == bindings[i]
             h1 == hash_combine(h, b.descriptorCount)
             h2 == hash_combine(h1, b.descriptorType)
             h3 == hash_combine(h2, b.stageFlags)
         IN HashBindings(h3, bindings, i + 1)

\* DescriptorSetLayoutCreateInfo::hash
hash(d) ==
    hash_combine(HashBindings(Word64(Len(d.bindings)), d.bindings, 1), d.flags)

BindingTie(b) ==
    <<b.binding, b.descriptorCount, b.descriptorType, b.stageFlags, b.pImmutableSamplers>>

\* DescriptorSetLayoutCreateInfo::operator==
DescriptorEq(A, B) ==
    IF Len(A.bindings) = Len(B.bindings)
    THEN \A i \in 1 .. Len(A.bindings) : BindingTie(A.bindings[i]) = BindingTie(B.bindings[i])
    ELSE TRUE

Binding(binding, type, count, stage) ==
    [binding |-> binding, descriptorType |-> type, descriptorCount |-> count,
     stageFlags |-> stage, pImmutableSamplers |-> 0]

\* {0, COMBINED_IMAGE_SAMPLER, 3, VERTEX | FRAGMENT}, the same at binding 1,
\* and {1, COMBINED_IMAGE_SAMPLER, 1, VERTEX | FRAGMENT}
BindingA == Binding(0, 1, 3, 17)

BindingA1 == Binding(1, 1, 3, 17)

BindingB == Binding(1, 1, 1, 17)

Layout(bindings, flags) == [bindings |-> bindings, flags |-> flags]

\* the descriptors handed to create: no binding, one binding, the same with
\* another flag, the same at another binding index, and two bindings
Descriptors ==
    {Layout(<<>>, 0), Layout(<<BindingA>>, 0), Layout(<<BindingA>>, 1),
     Layout(<<BindingA1>>, 0), Layout(<<BindingA, BindingB>>, 0)}

\* the hash code of each descriptor, as the table computes it on a lookup
HashCode == [d \in Descriptors |-> hash(d)]

LookupModes == {"hashcode", "keyonly"}

\* the nodes that may share the bucket find(info) searches: those with
\* info's hash code do, the others do or do not with the bucket count
Buckets(info) ==
    {B \in SUBSET (DOMAIN m_cache) :
        \A k \in DOMAIN m_cache : (HashCode[k] = HashCode[info]) => k \in B}

\* whether find(info) takes the node with key k: the key compares equal
\* and, in a table that stores hash codes, the hash codes agree
Matches(k, info) ==
    /\ DescriptorEq(k, info)
    /\ (lookupMode = "hashcode") => (HashCode[k] = HashCode[info])

\* m_cache.find(info): the nodes of the bucket that find may return
Find(info, bucket) == {k \in bucket : Matches(k, info)}

NullHandle == 0

\* the object vkCreateDescriptorSetLayout returns
NewObject == CHOOSE o \in 1 .. (Cardinality(vkObjects) + 1) : o \notin vkObjects

Created(info, obj, seen, invoked) ==
    [op |-> "create", info |-> info, obj |-> obj, seen |-> seen, invoked |-> invoked]

Remember(info, obj) ==
    IF info \in DOMAIN firstHandle THEN firstHandle
    ELSE [d \in (DOMAIN firstHandle) \cup {info} |->
             IF d = info THEN obj ELSE firstHandle[d]]

\* create(info) when find(info) returns a node
CreateHit ==
    /\ \E info \in Descriptors :
         \E bucket \in Buckets(info) :
         \E k \in Find(info, bucket) :
            /\ lastCreate' = Created(info, m_cache[k], info \in DOMAIN firstHandle, FALSE)
            /\ firstHandle' = Remember(info, m_cache[k])
    /\ UNCHANGED <<m_cache, lookupMode, vkObjects, notCache>>

\* create(info) when find(info) returns end() and the backend creates the object
CreateMiss ==
    /\ \E info \in Descriptors :
         /\ \E bucket \in Buckets(info) : Find(info, bucket) = {}
         /\ Cardinality(vkObjects) < MaxObjects
         /\ m_cache' = [d \in (DOMAIN m_cache) \cup {info} |->
                           IF d = info THEN NewObject ELSE m_cache[d]]
         /\ vkObjects' = vkObjects \cup {NewObject}
         /\ lastCreate' = Created(info, NewObject, info \in DOMAIN firstHandle, TRUE)
         /\ firstHandle' = Remember(info, NewObject)
    /\ UNCHANGED <<lookupMode, notCache>>

CreateThrowsStoringNull ==
    /\ \E info \in Descriptors :
         /\ \E bucket \in Buckets(info) : Find(info, bucket) = {}
         /\ m_cache' = [d \in (DOMAIN m_cache) \cup {info} |->
                           IF d = info THEN NullHandle ELSE m_cache[d]]
         /\ lastCreate' = Created(info, NullHandle, info \in DOMAIN firstHandle, TRUE)
    /\ UNCHANGED <<lookupMode, vkObjects, firstHandle, notCache>>

\* create(info) when find(info) returns end() and the backend fails:
\* "Could not create object" is thrown
CreateThrows ==
    /\ \E info \in Descriptors :
         /\ \E bucket \in Buckets(info) : Find(info, bucket) = {}
         /\ lastCreate' = Created(info, NullHandle, info \in DOMAIN firstHandle, TRUE)
    /\ UNCHANGED <<m_cache, lookupMode, vkObjects, firstHandle, notCache>>

\* destroy()
DestroyCache ==
    /\ m_cache' = EmptyMap
    /\ vkObjects' = {}
    /\ firstHandle' = EmptyMap
    /\ lastCreate' = [op |-> "destroy"]
    /\ UNCHANGED <<lookupMode, notCache>>

\* getCreateInfo(l): the keys the loop over m_cache may return, the first
\* entry whose object is l in the iteration order; none when it throws
\* std::out_of_range
getCreateInfo(l) == {k \in DOMAIN m_cache : m_cache[k] = l}

NextCache ==
    \/ CreateHit
    \/ CreateMiss
    \/ CreateThrows
    \/ DestroyCache

(***************************************************************************)
(* The memory cache: MemoryCache over SharedData::buffers and ::images.    *)
(***************************************************************************)
\* allocateBuffer and BufferInfo::resize round a byte count up to this
BufferGranularity == 256

\* BufferInfo::_roundUp(bytes, 256) in size_t; the byte counts of the model
\* stay far from the wrap-around
roundUpBytes(bytes) ==
    ((bytes + BufferGranularity - 1) \div BufferGranularity) * BufferGranularity

\* stagingBufferSize of init
StagingBufferSize == 1024 * 1024 * 16

BufferRequest(bytes, usage, memUsage, allocFlags) ==
    [bytes |-> bytes, usage |-> usage, memUsage |-> memUsage, allocFlags |-> allocFlags]

StorageUsage == {"STORAGE_BUFFER", "TRANSFER_DST", "TRANSFER_SRC"}

VertexUsage == {"VERTEX_BUFFER", "TRANSFER_DST", "TRANSFER_SRC"}

StagingUsage == {"TRANSFER_DST", "TRANSFER_SRC"}

\* the calls of allocateBuffer: allocateStorageBuffer(1, true, false),
\* (256, true, true) and (257, true, false), and allocateVertexBuffer(256)
BufferRequests ==
    {BufferRequest(1, StorageUsage, "AUTO_PREFER_HOST", {"HOST_ACCESS_SEQUENTIAL_WRITE"}),
     BufferRequest(256, StorageUsage, "AUTO_PREFER_HOST", {"HOST_ACCESS_RANDOM"}),
     BufferRequest(257, StorageUsage, "AUTO_PREFER_HOST", {"HOST_ACCESS_SEQUENTIAL_WRITE"}),
     BufferRequest(256, VertexUsage, "AUTO_PREFER_DEVICE", {})}

\* the byte counts handed to BufferInfo::resize
ResizeBytes == {257}

NullBuffer == 0

\* a registry entry: the BufferInfo a BufferHandle of the registry points to.
\* staging tells that SharedData::_stagingBuffer refers to it, held lists,
\* per allocateBuffer call whose handle is still held, the references the
\* caller keeps, and bytes is the byte count of the call that returned it last
BufferInfo(size, usage, memUsage, allocFlags, buffer, staging, held, bytes) ==
    [size |-> size, usage |-> usage, memUsage |-> memUsage, allocFlags |-> allocFlags,
     buffer |-> buffer, staging |-> staging, held |-> held, bytes |-> bytes]

ImageRequest(extent, format, viewType, layers, mipMaps, usage) ==
    [extent |-> extent, format |-> format, viewType |-> viewType, layers |-> layers,
     mipMaps |-> mipMaps, usage |-> usage]

\* the calls of allocateTexture: a 1x1 2D texture asked for with the
\* sampled bit, with no usage bit, and as a colour attachment
ImageRequests ==
    {ImageRequest(<<1, 1, 1>>, "R8G8B8A8_UNORM", "2D", 1, 1, {"SAMPLED"}),
     ImageRequest(<<1, 1, 1>>, "R8G8B8A8_UNORM", "2D", 1, 1, {}),
     ImageRequest(<<1, 1, 1>>, "R8G8B8A8_UNORM", "2D", 1, 1, {"COLOR_ATTACHMENT"})}

\* usage | SAMPLED | TRANSFER_SRC | TRANSFER_DST
WithSampleAndTransfers(usage) == usage \cup {"SAMPLED", "TRANSFER_SRC", "TRANSFER_DST"}

NullImage == 0

\* a registry entry: the ImageInfo a TextureHandle of the registry points to
ImageInfo(extent, format, viewType, layers, mipMaps, usage, image, held) ==
    [extent |-> extent, format |-> format, viewType |-> viewType, arrayLayers |-> layers,
     mipLevels |-> mipMaps, usage |-> usage, image |-> image, staging |-> FALSE,
     held |-> held]

RECURSIVE SumSeq(_)
SumSeq(s) == IF s = <<>> THEN 0 ELSE Head(s) + SumSeq(Tail(s))

\* shared_ptr::use_count of a registry entry: the registry's own reference,
\* _stagingBuffer's and the callers'
UseCount(E) == 1 + (IF E.staging THEN 1 ELSE 0) + SumSeq(E.held)

IsUnreferencedOrHeld(E) == UseCount(E) >= 1

\* B.use_count() == 1
IsUnreferenced(E) == UseCount(E) = 1

BufferAvailableAnySize(B, bytes, usage, memUsage) ==
    /\ IsUnreferenced(B)
    /\ B.usage = usage
    /\ B.memUsage = memUsage

BufferAvailable(B, bytes, usage, memUsage) ==
    /\ IsUnreferenced(B)
    /\ B.size = bytes
    /\ B.usage = usage
    /\ B.memUsage = memUsage

LastAvailableBuffer(bytes, usage, memUsage) ==
    LET found == {i \in DOMAIN buffers : BufferAvailable(buffers[i], bytes, usage, memUsage)}
    IN IF found = {} THEN 0 ELSE CHOOSE i \in found : \A j \in found : i >= j

\* the loop of allocateBuffer: the first entry that is available, 0 for none
FirstAvailableBuffer(bytes, usage, memUsage) ==
    LET found == {i \in DOMAIN buffers : BufferAvailable(buffers[i], bytes, usage, memUsage)}
    IN IF found = {} THEN 0 ELSE CHOOSE i \in found : \A j \in found : i <= j

ImageAvailableAnyUsage(I, format, extent, viewType, usage, arrayLayers, mipMaps) ==
    /\ IsUnreferenced(I)
    /\ I.extent = extent
    /\ I.arrayLayers = arrayLayers
    /\ I.mipLevels = mipMaps
    /\ I.format = format
    /\ I.viewType = viewType

ImageAvailable(I, format, extent, viewType, usage, arrayLayers, mipMaps) ==
    /\ IsUnreferenced(I)
    /\ I.extent = extent
    /\ I.arrayLayers = arrayLayers
    /\ I.mipLevels = mipMaps
    /\ I.format = format
    /\ I.viewType = viewType
    /\ I.usage = usage

\* _findAvailable: the first image that is available, 0 for none
FindAvailable(format, extent, viewType, usage, arrayLayers, mipMaps) ==
    LET found == {i \in DOMAIN images :
                     ImageAvailable(images[i], format, extent, viewType, usage,
                                    arrayLayers, mipMaps)}
    IN IF found = {} THEN 0 ELSE CHOOSE i \in found : \A j \in found : i <= j

MemOp(op, request, index, created, threw) ==
    [op |-> op, request |-> request, index |-> index, created |-> created, threw |-> threw]

HandleOp(op) == [op |-> op]

\* whether the allocator has memory for one more buffer or image
HasMemory == Len(buffers) + Len(images) < MaxResources

\* allocateBuffer when an entry of the registry is available: it is returned
AllocateBufferReuse ==
    /\ \E r \in BufferRequests :
         LET i == FirstAvailableBuffer(roundUpBytes(r.bytes), r.usage, r.memUsage)
         IN /\ i # 0
            /\ buffers' = [buffers EXCEPT ![i].held = Append(@, 1), ![i].bytes = r.bytes]
            /\ lastMem' = MemOp("allocateBuffer", r, i, FALSE, FALSE)
    /\ UNCHANGED <<images, notMem>>

\* allocateBuffer when no entry is available and vmaCreateBuffer succeeds
AllocateBufferCreate ==
    /\ \E r \in BufferRequests :
         /\ FirstAvailableBuffer(roundUpBytes(r.bytes), r.usage, r.memUsage) = 0
         /\ HasMemory
         /\ buffers' = Append(buffers,
                BufferInfo(roundUpBytes(r.bytes), r.usage, r.memUsage, r.allocFlags,
                           Len(buffers) + 1, FALSE, <<1>>, r.bytes))
         /\ lastMem' = MemOp("allocateBuffer", r, Len(buffers) + 1, TRUE, FALSE)
    /\ UNCHANGED <<images, notMem>>

\* allocateBuffer when no entry is available and vmaCreateBuffer fails:
\* "Error allocating VMA Buffer" is thrown
AllocateBufferThrows ==
    /\ \E r \in BufferRequests :
         /\ FirstAvailableBuffer(roundUpBytes(r.bytes), r.usage, r.memUsage) = 0
         /\ lastMem' = MemOp("allocateBuffer", <<>>, 0, FALSE, TRUE)
    /\ UNCHANGED <<buffers, images, notMem>>

\* allocateTexture when _findAvailable returns an image
AllocateTextureReuse ==
    /\ \E r \in ImageRequests :
         LET i == FindAvailable(r.format, r.extent, r.viewType,
                                WithSampleAndTransfers(r.usage), r.layers, r.mipMaps)
         IN /\ i # 0
            /\ images' = [images EXCEPT ![i].held = Append(@, 1)]
            /\ lastMem' = MemOp("allocateTexture", r, i, FALSE, FALSE)
    /\ UNCHANGED <<buffers, notMem>>

\* allocateTexture when _findAvailable returns nullptr and image_Create
\* creates the image
AllocateTextureCreate ==
    /\ \E r \in ImageRequests :
         /\ FindAvailable(r.format, r.extent, r.viewType,
                          WithSampleAndTransfers(r.usage), r.layers, r.mipMaps) = 0
         /\ HasMemory
         /\ images' = Append(images,
                ImageInfo(r.extent, r.format, r.viewType, r.layers, r.mipMaps,
                          WithSampleAndTransfers(r.usage), Len(images) + 1, <<1>>))
         /\ lastMem' = MemOp("allocateTexture", r, Len(images) + 1, TRUE, FALSE)
    /\ UNCHANGED <<buffers, notMem>>

\* the references of one call's handle after the caller drops one of them
Dropped(held, k) ==
    IF held[k] = 1 THEN RemoveAt(held, k) ELSE [held EXCEPT ![k] = @ - 1]

\* the references callers hold to the entries of a registry
HeldReferences(registry) ==
    SumSeq([i \in DOMAIN registry |-> SumSeq(registry[i].held)])

\* the handles callers hold to the entries of a registry
HeldHandles(registry) ==
    SumSeq([i \in DOMAIN registry |-> Len(registry[i].held)])

\* the caller copies a BufferHandle or a TextureHandle it holds; one copy
\* exists at a time
CopyHandle ==
    /\ HeldReferences(buffers) + HeldReferences(images)
          = HeldHandles(buffers) + HeldHandles(images)
    /\ \/ /\ \E i \in DOMAIN buffers : \E k \in DOMAIN buffers[i].held :
               buffers' = [buffers EXCEPT ![i].held[k] = @ + 1]
          /\ UNCHANGED images
       \/ /\ \E i \in DOMAIN images : \E k \in DOMAIN images[i].held :
               images' = [images EXCEPT ![i].held[k] = @ + 1]
          /\ UNCHANGED buffers
    /\ lastMem' = HandleOp("handle")
    /\ UNCHANGED notMem

\* the caller drops a BufferHandle or a TextureHandle it holds
ResetHandle ==
    /\ \/ /\ \E i \in DOMAIN buffers : \E k \in DOMAIN buffers[i].held :
               buffers' = [buffers EXCEPT ![i].held = Dropped(@, k)]
          /\ UNCHANGED images
       \/ /\ \E i \in DOMAIN images : \E k \in DOMAIN images[i].held :
               images' = [images EXCEPT ![i].held = Dropped(@, k)]
          /\ UNCHANGED buffers
    /\ lastMem' = HandleOp("handle")
    /\ UNCHANGED notMem

\* BufferInfo::resize on a buffer the caller holds: the backend buffer is
\* destroyed and one of the rounded size is created
ResizeBuffer ==
    /\ \E i \in DOMAIN buffers : \E bytes \in ResizeBytes :
         /\ buffers[i].held # <<>>
         /\ buffers' = [buffers EXCEPT ![i].size = roundUpBytes(bytes), ![i].buffer = i]
    /\ lastMem' = HandleOp("handle")
    /\ UNCHANGED <<images, notMem>>

\* BufferInfo::resize when vmaCreateBuffer fails: "Error allocating VMA
\* Buffer" is thrown after the old buffer is destroyed and the size is set
ResizeBufferThrows ==
    /\ \E i \in DOMAIN buffers : \E bytes \in ResizeBytes :
         /\ buffers[i].held # <<>>
         /\ buffers' = [buffers EXCEPT ![i].size = roundUpBytes(bytes),
                                       ![i].buffer = NullBuffer]
    /\ lastMem' = HandleOp("handle")
    /\ UNCHANGED <<images, notMem>>

\* B.get() == nullptr, of a handle of the registry: every one points to its entry
IsNullHandle(B) == FALSE

\* std::remove_if with the erase that follows it
EraseNullHandles(registry) == SelectSeq(registry, LAMBDA B : ~IsNullHandle(B))

\* freeUnusedBuffers: _destroyBuffer on every unreferenced entry, then the
\* erase of the null handles; returns the number erased
FreeUnusedBuffers ==
    LET destroyed == [i \in DOMAIN buffers |->
                         IF IsUnreferenced(buffers[i])
                         THEN [buffers[i] EXCEPT !.buffer = NullBuffer]
                         ELSE buffers[i]]
    IN /\ buffers' = EraseNullHandles(destroyed)
       /\ lastMem' = MemOp("freeUnusedBuffers", Len(destroyed) - Len(buffers'), 0, FALSE, FALSE)
       /\ UNCHANGED <<images, notMem>>

\* freeUnusedImages: _destroyTexture on every unreferenced entry, then the
\* erase of the null handles; returns the number erased
FreeUnusedImages ==
    LET destroyed == [i \in DOMAIN images |->
                         IF IsUnreferenced(images[i])
                         THEN [images[i] EXCEPT !.image = NullImage]
                         ELSE images[i]]
    IN /\ images' = EraseNullHandles(destroyed)
       /\ lastMem' = MemOp("freeUnusedImages", Len(destroyed) - Len(images'), 0, FALSE, FALSE)
       /\ UNCHANGED <<buffers, notMem>>

NextMem ==
    \/ AllocateBufferReuse
    \/ AllocateBufferCreate
    \/ AllocateBufferThrows
    \/ AllocateTextureReuse
    \/ AllocateTextureCreate
    \/ CopyHandle
    \/ ResetHandle
    \/ ResizeBuffer
    \/ ResizeBufferThrows
    \/ FreeUnusedBuffers
    \/ FreeUnusedImages

\* the memory cache used through allocateBuffer, the handles it returns and
\* freeUnusedBuffers only
NextMemBuffers ==
    \/ AllocateBufferReuse
    \/ AllocateBufferCreate
    \/ AllocateBufferThrows
    \/ CopyHandle
    \/ ResetHandle
    \/ FreeUnusedBuffers

\* allocateTexture when _findAvailable returns nullptr and vmaCreateImage
\* fails in image_Create.  "assert(suc == VK_SUCCESS)" is all that looks at
\* the result: a build with assertions aborts the program there; a build
\* without them goes on with the image vmaCreateImage left null, registers
\* the ImageInfo and returns its handle.
AllocateTextureCreateFails ==
    /\ lastMem.op # "abort"
    /\ \E r \in ImageRequests :
         /\ FindAvailable(r.format, r.extent, r.viewType,
                          WithSampleAndTransfers(r.usage), r.layers, r.mipMaps) = 0
         /\ \/ /\ images' = images
               /\ lastMem' = MemOp("abort", r, 0, FALSE, FALSE)
            \/ /\ Len(buffers) + Len(images) < MaxResources + 1
               /\ images' = Append(images,
                      ImageInfo(r.extent, r.format, r.viewType, r.layers, r.mipMaps,
                                WithSampleAndTransfers(r.usage), NullImage, <<1>>))
               /\ lastMem' = MemOp("allocateTexture", r, Len(images) + 1, FALSE, FALSE)
    /\ UNCHANGED <<buffers, notMem>>

\* a step of the memory cache while the program runs
RunningMem ==
    /\ lastMem.op # "abort"
    /\ NextMem

\* the memory cache with a backend that can fail to create an image
NextMemCreateFails ==
    \/ RunningMem
    \/ AllocateTextureCreateFails

(***************************************************************************)
(* The texture map: TextureMap (gvu/Containers).  Slots are numbered from  *)
(* 0 as in the source; slot 0 is the null texture's.                       *)
(***************************************************************************)
\* the nullTexture handed to init
NullTextureHandle == 0

\* the textures the caller inserts and removes
TextureHandles == {1, 2}

Slots == 0 .. (MaxTextures - 1)

\* the indices handed to removeTexture(uint32_t), which asserts i != 0
RemovableIndices == 1 .. (MaxTextures - 1)

TexOp(op, arg, index) == [op |-> op, arg |-> arg, index |-> index]

\* std::unordered_map::erase(key)
Erased(map, key) == [k \in (DOMAIN map) \ {key} |-> map[k]]

\* m_textureToIndex[t] = i
Assigned(map, t, i) == [k \in (DOMAIN map) \cup {t} |-> IF k = t THEN i ELSE map[k]]

\* getIndex(t): 0 for a texture the map does not hold
getIndex(t) == IF t \in DOMAIN m_textureToIndex THEN m_textureToIndex[t] ELSE 0

\* the body of removeTexture(uint32_t i)
RemoveAtIndex(i) ==
    /\ m_textureToIndex' = Erased(m_textureToIndex, m_textures[i])
    /\ m_textures' = [m_textures EXCEPT ![i] = m_textures[0]]
    /\ m_textureInfo' = [m_textureInfo EXCEPT ![i] = m_textureInfo[0]]
    /\ m_needsUpdate' = m_needsUpdate \cup {i}
    /\ m_freeIndices' = Append(m_freeIndices, i)

\* insertTexture(t) for a texture the map holds: its index is returned
InsertTextureFound ==
    /\ lastTexOp.op # "abort"
    /\ \E t \in TextureHandles :
         /\ t \in DOMAIN m_textureToIndex
         /\ lastTexOp' = TexOp("insertTexture", t, m_textureToIndex[t])
    /\ UNCHANGED <<m_textures, m_textureInfo, m_textureToIndex, m_needsUpdate,
                   m_freeIndices, notTex>>

\* insertTexture(t) for a texture the map does not hold: the index at the
\* back of m_freeIndices is taken.  "assert(m_freeIndices.size() > 0)" and
\* "assert(m_textures[i] == m_textures.front())" abort a build with
\* assertions; a build without them reads back() of the empty vector, which
\* is a fault, and overwrites the slot whatever it holds.
InsertTextureNew ==
    /\ lastTexOp.op # "abort"
    /\ \E t \in TextureHandles :
         /\ t \notin DOMAIN m_textureToIndex
         /\ IF m_freeIndices = <<>>
            THEN /\ lastTexOp' = TexOp("abort", t, 0)
                 /\ UNCHANGED <<m_textures, m_textureInfo, m_textureToIndex,
                                m_needsUpdate, m_freeIndices>>
            ELSE LET i == m_freeIndices[Len(m_freeIndices)]
                 IN \/ /\ m_textures[i] # m_textures[0]
                       /\ lastTexOp' = TexOp("abort", t, i)
                       /\ m_freeIndices' = SubSeq(m_freeIndices, 1, Len(m_freeIndices) - 1)
                       /\ UNCHANGED <<m_textures, m_textureInfo, m_textureToIndex,
                                      m_needsUpdate>>
                    \/ /\ m_freeIndices' = SubSeq(m_freeIndices, 1, Len(m_freeIndices) - 1)
                       /\ m_textures' = [m_textures EXCEPT ![i] = t]
                       /\ m_textureInfo' = [m_textureInfo EXCEPT ![i] = t]
                       /\ m_needsUpdate' = m_needsUpdate \cup {i}
                       /\ m_textureToIndex' = Assigned(m_textureToIndex, t, i)
                       /\ lastTexOp' = TexOp("insertTexture", t, i)
    /\ UNCHANGED notTex

\* removeTexture(uint32_t i) with i > 0
RemoveTextureIndex ==
    /\ lastTexOp.op # "abort"
    /\ Len(m_freeIndices) < MaxTextures
    /\ \E i \in RemovableIndices :
         /\ RemoveAtIndex(i)
         /\ lastTexOp' = TexOp("removeTexture(index)", i, i)
    /\ UNCHANGED notTex

\* removeTexture(TextureHandle const & t)
RemoveTextureHandle ==
    /\ lastTexOp.op # "abort"
    /\ Len(m_freeIndices) < MaxTextures
    /\ \E t \in TextureHandles :
         LET i == getIndex(t)
         IN /\ IF i > 0
               THEN RemoveAtIndex(i)
               ELSE UNCHANGED <<m_textures, m_textureInfo, m_textureToIndex,
                                m_needsUpdate, m_freeIndices>>
            /\ lastTexOp' = TexOp("removeTexture(handle)", t, i)
    /\ UNCHANGED notTex

\* update(s, binding, ty): the dirty slots are written to the descriptor
\* set and m_needsUpdate is cleared
UpdateTextures ==
    /\ lastTexOp.op # "abort"
    /\ m_needsUpdate # {}
    /\ m_needsUpdate' = {}
    /\ lastTexOp' = TexOp("update", Cardinality(m_needsUpdate), 0)
    /\ UNCHANGED <<m_textures, m_textureInfo, m_textureToIndex, m_freeIndices, notTex>>

NextTex ==
    \/ InsertTextureFound
    \/ InsertTextureNew
    \/ RemoveTextureIndex
    \/ RemoveTextureHandle
    \/ UpdateTextures

(***************************************************************************)
(* The storage cursor of a buffer: BufferInfo::pushStorage over m_itr.     *)
(* bufferSize is getBufferSize() of the buffer.                            *)
(***************************************************************************)
\* the values of the parameter count of pushStorage
PushCounts == {0, 1, 2, 3, 4, 9}

\* push_back(value, count, sizeofValue) with the cursor at itr on a buffer
\* of size bytes: the cursor it leaves, the first byte and the number of
\* bytes memcpy writes, and the index returned
push_back(itr, count, sizeofValue, size) ==
    LET totalByteSize == (sizeofValue * count) % DeviceSizeMod
        aligned == RoundUp(itr, sizeofValue)
        startIndex == IF UAdd(aligned, totalByteSize) >= size THEN 0 ELSE aligned
    IN [m_itr |-> UAdd(startIndex, (count * sizeofValue) % DeviceSizeMod),
        start |-> startIndex,
        bytes |-> totalByteSize,
        index |-> startIndex \div sizeofValue]

\* pushStorage<T>(v, count)
PushStorage ==
    /\ \E T \in ElementTypes, count \in PushCounts :
         LET r == push_back(m_itr, count, T.size, bufferSize)
         IN /\ m_itr' = r.m_itr
            /\ lastPush' = [op |-> "pushStorage", sizeofT |-> T.size, count |-> count,
                            start |-> r.start, bytes |-> r.bytes, index |-> r.index]
    /\ UNCHANGED notPush

\* clearStorageIterator()
ClearStorageIterator ==
    /\ m_itr' = 0
    /\ lastPush' = [op |-> "clearStorageIterator"]
    /\ UNCHANGED notPush

NextPush ==
    \/ PushStorage
    \/ ClearStorageIterator

(***************************************************************************)
(* The specifications: one subsystem runs, the others stay unused.         *)
(***************************************************************************)
\* an arena after setBuffer(h, chunk)
InitArena ==
    /\ bufferSize \in BufferSizes
    /\ m_allocationChunkSize \in ChunkSizes
    /\ m_allocations = SetBufferList(bufferSize)
    /\ m_poolInfos = EmptyMap
    /\ m_setToPool = EmptyMap
    /\ m_createInfo_maxSets = 0
    /\ vkLiveSets = EmptyMap
    /\ checkedOut = {}
    /\ peakCheckedOut = 0
    /\ lastPoolOp = PoolOp("none", {})
    /\ m_cache = EmptyMap
    /\ lookupMode = "hashcode"
    /\ vkObjects = {}
    /\ firstHandle = EmptyMap
    /\ lastCreate = [op |-> "none"]
    /\ buffers = <<>>
    /\ images = <<>>
    /\ lastMem = [op |-> "none"]
    /\ m_textures = <<>>
    /\ m_textureInfo = <<>>
    /\ m_textureToIndex = EmptyMap
    /\ m_needsUpdate = {}
    /\ m_freeIndices = <<>>
    /\ lastTexOp = [op |-> "none"]
    /\ m_itr = 0
    /\ lastPush = [op |-> "none"]
    /\ legacy_poolInfos = EmptyMap
    /\ legacy_setToPool = EmptyMap
    /\ lastLegacyOp = PoolOp("none", {})

\* a pool manager after init(device, cache, layout, maxSetsPerPool)
InitPool ==
    /\ m_createInfo_maxSets \in MaxSetsPerPoolValues
    /\ m_poolInfos = [p \in {1} |-> PoolInfo(m_createInfo_maxSets)]
    /\ m_setToPool = EmptyMap
    /\ vkLiveSets = [p \in {1} |-> {}]
    /\ checkedOut = {}
    /\ peakCheckedOut = 0
    /\ lastPoolOp = PoolOp("init", {})
    /\ m_allocations = <<>>
    /\ m_allocationChunkSize = 0
    /\ bufferSize = 0
    /\ m_cache = EmptyMap
    /\ lookupMode = "hashcode"
    /\ vkObjects = {}
    /\ firstHandle = EmptyMap
    /\ lastCreate = [op |-> "none"]
    /\ buffers = <<>>
    /\ images = <<>>
    /\ lastMem = [op |-> "none"]
    /\ m_textures = <<>>
    /\ m_textureInfo = <<>>
    /\ m_textureToIndex = EmptyMap
    /\ m_needsUpdate = {}
    /\ m_freeIndices = <<>>
    /\ lastTexOp = [op |-> "none"]
    /\ m_itr = 0
    /\ lastPush = [op |-> "none"]
    /\ legacy_poolInfos = EmptyMap
    /\ legacy_setToPool = EmptyMap
    /\ lastLegacyOp = PoolOp("none", {})

\* both pool managers after init(device, cache, layout, maxSetsPerPool)
InitPoolPair ==
    /\ m_createInfo_maxSets \in PositiveMaxSetsPerPoolValues
    /\ m_poolInfos = [p \in {1} |-> PoolInfo(m_createInfo_maxSets)]
    /\ m_setToPool = EmptyMap
    /\ vkLiveSets = [p \in {1} |-> {}]
    /\ checkedOut = {}
    /\ peakCheckedOut = 0
    /\ lastPoolOp = PoolOp("init", {})
    /\ m_allocations = <<>>
    /\ m_allocationChunkSize = 0
    /\ bufferSize = 0
    /\ m_cache = EmptyMap
    /\ lookupMode = "hashcode"
    /\ vkObjects = {}
    /\ firstHandle = EmptyMap
    /\ lastCreate = [op |-> "none"]
    /\ buffers = <<>>
    /\ images = <<>>
    /\ lastMem = [op |-> "none"]
    /\ m_textures = <<>>
    /\ m_textureInfo = <<>>
    /\ m_textureToIndex = EmptyMap
    /\ m_needsUpdate = {}
    /\ m_freeIndices = <<>>
    /\ lastTexOp = [op |-> "none"]
    /\ m_itr = 0
    /\ lastPush = [op |-> "none"]
    /\ legacy_poolInfos = [p \in {1} |-> LegacyPoolInfo(m_createInfo_maxSets)]
    /\ legacy_setToPool = EmptyMap
    /\ lastLegacyOp = PoolOp("init", {})

\* a cache after init(device)
InitCache ==
    /\ m_cache = EmptyMap
    /\ lookupMode \in LookupModes
    /\ vkObjects = {}
    /\ firstHandle = EmptyMap
    /\ lastCreate = [op |-> "init"]
    /\ buffers = <<>>
    /\ images = <<>>
    /\ lastMem = [op |-> "none"]
    /\ m_allocations = <<>>
    /\ m_allocationChunkSize = 0
    /\ bufferSize = 0
    /\ m_poolInfos = EmptyMap
    /\ m_setToPool = EmptyMap
    /\ m_createInfo_maxSets = 0
    /\ vkLiveSets = EmptyMap
    /\ checkedOut = {}
    /\ peakCheckedOut = 0
    /\ lastPoolOp = PoolOp("none", {})
    /\ m_textures = <<>>
    /\ m_textureInfo = <<>>
    /\ m_textureToIndex = EmptyMap
    /\ m_needsUpdate = {}
    /\ m_freeIndices = <<>>
    /\ lastTexOp = [op |-> "none"]
    /\ m_itr = 0
    /\ lastPush = [op |-> "none"]
    /\ legacy_poolInfos = EmptyMap
    /\ legacy_setToPool = EmptyMap
    /\ lastLegacyOp = PoolOp("none", {})

\* a memory cache after init: the registry holds the staging buffer, which
\* _stagingBuffer refers to
InitMem ==
    /\ buffers = <<BufferInfo(roundUpBytes(StagingBufferSize), StagingUsage,
                              "AUTO_PREFER_HOST", {"HOST_ACCESS_SEQUENTIAL_WRITE"},
                              1, TRUE, <<>>, StagingBufferSize)>>
    /\ images = <<>>
    /\ lastMem = [op |-> "init"]
    /\ m_allocations = <<>>
    /\ m_allocationChunkSize = 0
    /\ bufferSize = 0
    /\ m_poolInfos = EmptyMap
    /\ m_setToPool = EmptyMap
    /\ m_createInfo_maxSets = 0
    /\ vkLiveSets = EmptyMap
    /\ checkedOut = {}
    /\ peakCheckedOut = 0
    /\ lastPoolOp = PoolOp("none", {})
    /\ m_cache = EmptyMap
    /\ lookupMode = "hashcode"
    /\ vkObjects = {}
    /\ firstHandle = EmptyMap
    /\ lastCreate = [op |-> "none"]
    /\ m_textures = <<>>
    /\ m_textureInfo = <<>>
    /\ m_textureToIndex = EmptyMap
    /\ m_needsUpdate = {}
    /\ m_freeIndices = <<>>
    /\ lastTexOp = [op |-> "none"]
    /\ m_itr = 0
    /\ lastPush = [op |-> "none"]
    /\ legacy_poolInfos = EmptyMap
    /\ legacy_setToPool = EmptyMap
    /\ lastLegacyOp = PoolOp("none", {})

\* a texture map after init(MaxTextures, nullTexture): every slot holds the
\* null texture and is dirty, the free indices are MaxTextures-1 down to 1
InitTex ==
    /\ m_textures = [i \in Slots |-> NullTextureHandle]
    /\ m_textureInfo = [i \in Slots |-> NullTextureHandle]
    /\ m_textureToIndex = EmptyMap
    /\ m_needsUpdate = Slots
    /\ m_freeIndices = [k \in 1 .. (MaxTextures - 1) |-> MaxTextures - k]
    /\ lastTexOp = [op |-> "init"]
    /\ m_allocations = <<>>
    /\ m_allocationChunkSize = 0
    /\ bufferSize = 0
    /\ m_poolInfos = EmptyMap
    /\ m_setToPool = EmptyMap
    /\ m_createInfo_maxSets = 0
    /\ vkLiveSets = EmptyMap
    /\ checkedOut = {}
    /\ peakCheckedOut = 0
    /\ lastPoolOp = PoolOp("none", {})
    /\ m_cache = EmptyMap
    /\ lookupMode = "hashcode"
    /\ vkObjects = {}
    /\ firstHandle = EmptyMap
    /\ lastCreate = [op |-> "none"]
    /\ buffers = <<>>
    /\ images = <<>>
    /\ lastMem = [op |-> "none"]
    /\ m_itr = 0
    /\ lastPush = [op |-> "none"]
    /\ legacy_poolInfos = EmptyMap
    /\ legacy_setToPool = EmptyMap
    /\ lastLegacyOp = PoolOp("none", {})

\* a buffer of bufferSize bytes whose cursor is at its start
InitPush ==
    /\ bufferSize \in BufferSizes
    /\ m_itr = 0
    /\ lastPush = [op |-> "none"]
    /\ m_allocations = <<>>
    /\ m_allocationChunkSize = 0
    /\ m_poolInfos = EmptyMap
    /\ m_setToPool = EmptyMap
    /\ m_createInfo_maxSets = 0
    /\ vkLiveSets = EmptyMap
    /\ checkedOut = {}
    /\ peakCheckedOut = 0
    /\ lastPoolOp = PoolOp("none", {})
    /\ m_cache = EmptyMap
    /\ lookupMode = "hashcode"
    /\ vkObjects = {}
    /\ firstHandle = EmptyMap
    /\ lastCreate = [op |-> "none"]
    /\ buffers = <<>>
    /\ images = <<>>
    /\ lastMem = [op |-> "none"]
    /\ m_textures = <<>>
    /\ m_textureInfo = <<>>
    /\ m_textureToIndex = EmptyMap
    /\ m_needsUpdate = {}
    /\ m_freeIndices = <<>>
    /\ lastTexOp = [op |-> "none"]
    /\ legacy_poolInfos = EmptyMap
    /\ legacy_setToPool = EmptyMap
    /\ lastLegacyOp = PoolOp("none", {})

SpecArena == InitArena /\ [][NextArena]_vars

SpecArenaSetBuffer == InitArena /\ [][NextArenaSetBuffer]_vars

SpecArenaTyped == InitArena /\ [][NextArenaTyped]_vars

SpecPool == InitPool /\ [][NextPool]_vars

SpecPoolPair == InitPoolPair /\ [][NextPoolPair]_vars

SpecCache == InitCache /\ [][NextCache]_vars

SpecMem == InitMem /\ [][NextMem]_vars

SpecMemBuffers == InitMem /\ [][NextMemBuffers]_vars

SpecMemCreateFails == InitMem /\ [][NextMemCreateFails]_vars

SpecTex == InitTex /\ [][NextTex]_vars

SpecPush == InitPush /\ [][NextPush]_vars

(***************************************************************************)
(* Claims about the arena.                                                 *)
(***************************************************************************)
Held(E) == E.refs >= 1

HeldSeq(allocs) == SelectSeq(allocs, Held)

RangeEnd(E) == E.m_allocationOffset + E.m_allocationSize

\* C1: after any sequence of allocate, release and mergeFreeAllocations the
\* entries in list order tile [0, bufferSize): the first starts at 0, each
\* ends where the next starts, and the last ends at bufferSize.
C1_Tiling ==
    /\ Len(m_allocations) >= 1
    /\ m_allocations[1].m_allocationOffset = 0
    /\ \A i \in 1 .. Len(m_allocations) - 1 :
         RangeEnd(m_allocations[i]) = m_allocations[i + 1].m_allocationOffset
    /\ RangeEnd(m_allocations[Len(m_allocations)]) = bufferSize

\* a held entry between a released entry and the free tail
C1_Witness ==
    /\ Len(m_allocations) >= 3
    /\ IsFree(m_allocations[1])
    /\ Held(m_allocations[2])
    /\ IsFree(m_allocations[Len(m_allocations)])
    /\ m_allocations[1].m_alignment > 1

\* the held entries of after are those of before, in order, with at most
\* one new entry among them
HeldKept(before, after) ==
    \/ HeldSeq(after) = HeldSeq(before)
    \/ \E i \in 1 .. Len(HeldSeq(after)) : RemoveAt(HeldSeq(after), i) = HeldSeq(before)

NoHeldOverlap ==
    \A i, j \in 1 .. Len(m_allocations) :
        (i < j /\ Held(m_allocations[i]) /\ Held(m_allocations[j]))
            => \/ RangeEnd(m_allocations[i]) <= m_allocations[j].m_allocationOffset
               \/ RangeEnd(m_allocations[j]) <= m_allocations[i].m_allocationOffset
               \/ m_allocations[i].m_allocationSize = 0
               \/ m_allocations[j].m_allocationSize = 0

\* C2: while a handle is held, no allocate or mergeFreeAllocations call
\* changes its offset, size, allocationOffset or allocationSize or removes
\* it from the list, and the reserved ranges of two held handles never
\* intersect.
C2_HeldHandlesStable ==
    /\ [](NoHeldOverlap)
    /\ [][(Allocate \/ MergeFreeAllocations) => HeldKept(m_allocations, m_allocations')]_vars

\* two held handles next to a released one
C2_Witness ==
    /\ Len(m_allocations) >= 3
    /\ Held(m_allocations[1])
    /\ IsFree(m_allocations[2])
    /\ Held(m_allocations[3])

\* the entry a successful allocate(s, alignment) returns in this step
AllocateReturnsAligned ==
    \A s \in RequestSizes, alignment \in Alignments :
        LET r == allocate(m_allocations, s, alignment, m_allocationChunkSize)
        IN (r.ok /\ m_allocations' = r.allocs)
            => LET b == r.allocs[r.at]
               IN /\ b.m_offset % alignment = 0
                  /\ b.m_size % alignment = 0
                  /\ b.m_size >= s
                  /\ b.m_alignment = alignment

\* C3: every successful allocate(size, alignment) with alignment >= 1
\* returns a handle b with b.offset % alignment = 0, b.size % alignment = 0,
\* b.size >= size and b.alignment = alignment.
C3_AlignmentLaw == [][Allocate => AllocateReturnsAligned]_vars

(***************************************************************************)
(* Claims about the descriptor pool manager.                               *)
(***************************************************************************)
\* the pools this step reset held no set that is still checked out
ResetSparesCheckedOut ==
    (lastPoolOp'.op \in {"releaseToPool", "resetAllAvailablePools"})
        => \A p \in lastPoolOp'.reset : vkLiveSets[p] \cap checkedOut' = {}

\* C4: releaseToPool and resetAllAvailablePools(false) reset a pool only
\* when every set allocated from it since its previous reset has been
\* returned: a set that is allocated and not yet released is never
\* invalidated by them and stays live in the backend.
C4_NoCheckedOutSetInvalidated ==
    /\ [](\A s \in checkedOut : s \in LiveSets /\ s \in DOMAIN m_setToPool)
    /\ [][ResetSparesCheckedOut]_vars

\* releaseToPool has just reset a pool while a set of another pool is
\* still checked out
C4_Witness ==
    /\ lastPoolOp.op = "releaseToPool"
    /\ lastPoolOp.reset # {}
    /\ checkedOut # {}

\* C5: for every pool, after any sequence of allocateDescriptorSet,
\* releaseToPool and resetAllAvailablePools calls,
\* returnedSets.size() <= allocatedSets.size() <= maxSets.
C5_PoolSizes ==
    \A p \in DOMAIN m_poolInfos :
        /\ Cardinality(m_poolInfos[p].returnedSets) <= Cardinality(m_poolInfos[p].allocatedSets)
        /\ Cardinality(m_poolInfos[p].allocatedSets) <= m_poolInfos[p].maxSets

\* a full pool with a set returned and a set still out
C5_Witness ==
    \E p \in DOMAIN m_poolInfos :
        /\ Cardinality(m_poolInfos[p].allocatedSets) = m_poolInfos[p].maxSets
        /\ Cardinality(m_poolInfos[p].returnedSets) = 1
        /\ m_poolInfos[p].maxSets >= 2

(***************************************************************************)
(* Claims about the object cache.                                          *)
(***************************************************************************)
\* C7: before destroy(), a create call with a descriptor created earlier
\* returns the handle the earlier call returned without invoking the
\* backend factory, and cacheSize() is the number of distinct descriptors
\* created so far.
C7_CreateDeduplicates ==
    /\ (lastCreate.op = "create" /\ lastCreate.seen)
          => /\ lastCreate.obj = firstHandle[lastCreate.info]
             /\ ~lastCreate.invoked
    /\ Cardinality(DOMAIN m_cache) = Cardinality(DOMAIN firstHandle)

\* C8: two created descriptors that differ structurally have different
\* handles, and the cache holds an entry for each of them.
C8_DistinctDescriptorsDistinctHandles ==
    \A d1, d2 \in DOMAIN firstHandle :
        d1 # d2 => /\ firstHandle[d1] # firstHandle[d2]
                   /\ d1 \in DOMAIN m_cache
                   /\ d2 \in DOMAIN m_cache

\* C9: two DescriptorSetLayoutCreateInfo that compare equal under
\* operator== have equal hash() values; stated of the descriptors the
\* cache has been handed.
C9_EqualImpliesEqualHash ==
    \A d1, d2 \in DOMAIN firstHandle :
        DescriptorEq(d1, d2) => HashCode[d1] = HashCode[d2]

(***************************************************************************)
(* Claims about the memory cache.                                          *)
(***************************************************************************)
\* C6: a pooled buffer or image is handed out again only when the registry
\* is its sole owner: no resource is held through the handles of two
\* separate allocateBuffer/allocateTexture calls, and none is handed out
\* while the cache's own staging reference holds it.
C6_SoleOwnerReuse ==
    /\ \A i \in DOMAIN buffers :
          /\ Len(buffers[i].held) <= 1
          /\ buffers[i].staging => buffers[i].held = <<>>
    /\ \A i \in DOMAIN images : Len(images[i].held) <= 1

\* a second call with the key of a buffer that is still held has created
\* another buffer, and both are held
C6_Witness ==
    /\ lastMem.op = "allocateBuffer"
    /\ lastMem.created
    /\ \E i \in 1 .. (lastMem.index - 1) :
          /\ buffers[i].held # <<>>
          /\ buffers[i].size = buffers[lastMem.index].size
          /\ buffers[i].usage = buffers[lastMem.index].usage
          /\ buffers[i].memUsage = buffers[lastMem.index].memUsage

\* the step is an allocateBuffer call that returns a buffer
AllocateBufferReturns ==
    /\ lastMem'.op = "allocateBuffer"
    /\ ~lastMem'.threw
    /\ buffers' # buffers

\* B is the buffer h = allocateBuffer(r.bytes, r.usage, r.memUsage) returned,
\* and every external reference to it has been dropped
ReleasedAfter(B, r) ==
    /\ IsUnreferenced(B)
    /\ B.bytes = r.bytes
    /\ B.usage = r.usage
    /\ B.memUsage = r.memUsage

\* C10: after h = allocateBuffer(S, U, M) and after every external
\* reference to h has been dropped, the next allocateBuffer(S, U, M) returns
\* the resource of h, performs no backend allocation and does not grow the
\* registry.
C10_ReleasedBufferReturned ==
    [][AllocateBufferReturns =>
         \A i \in DOMAIN buffers :
            ReleasedAfter(buffers[i], lastMem'.request)
               => /\ lastMem'.index = i
                  /\ ~lastMem'.created
                  /\ Len(buffers') = Len(buffers)]_vars

\* C10, amended: when h's buffer still has the rounded size it was
\* allocated with, the call performs no backend allocation, does not grow
\* the registry, and returns an unreferenced buffer of the same rounded
\* size, usage and memory usage that is registered no later than h's: h's
\* own when no buffer registered before it is one.
C10_FirstReleasedBufferReturned ==
    [][AllocateBufferReturns =>
         \A i \in DOMAIN buffers :
            LET r == lastMem'.request
                bytes == roundUpBytes(r.bytes)
            IN (ReleasedAfter(buffers[i], r) /\ buffers[i].size = bytes)
                  => /\ ~lastMem'.created
                     /\ Len(buffers') = Len(buffers)
                     /\ lastMem'.index <= i
                     /\ BufferAvailable(buffers[lastMem'.index], bytes, r.usage, r.memUsage)
                     /\ (\A j \in 1 .. (i - 1) :
                            ~BufferAvailable(buffers[j], bytes, r.usage, r.memUsage))
                           => lastMem'.index = i]_vars

\* a released buffer has been returned again while a buffer registered
\* after it, of the same size, usage and memory usage, was unreferenced too
C10_Witness ==
    /\ lastMem.op = "allocateBuffer"
    /\ ~lastMem.threw
    /\ ~lastMem.created
    /\ \E j \in DOMAIN buffers :
          /\ j > lastMem.index
          /\ BufferAvailable(buffers[j], buffers[lastMem.index].size,
                             buffers[lastMem.index].usage, buffers[lastMem.index].memUsage)

\* B is a buffer allocated with (S, U, M) that has been released, and the
\* request r differs from (S, U, M) in the size, the usage or the memory usage
ReleasedAndDiffers(B, r) ==
    /\ IsUnreferenced(B)
    /\ (B.bytes # r.bytes \/ B.usage # r.usage \/ B.memUsage # r.memUsage)

\* C11: when a buffer allocated with (S, U, M) has been released and the
\* next allocateBuffer call differs from it in the requested size, the
\* usage or the memory usage, the call performs a new backend allocation
\* and returns a resource other than the released one.
C11_DifferentRequestAllocates ==
    [][AllocateBufferReturns =>
         \A i \in DOMAIN buffers :
            ReleasedAndDiffers(buffers[i], lastMem'.request)
               => /\ lastMem'.created
                  /\ lastMem'.index # i]_vars

\* C11, amended: when the request differs from a released buffer in the
\* size rounded up to 256 (against the size the buffer has now), the usage
\* or the memory usage, the call does not return that buffer: it returns
\* another unreferenced buffer of the registry that matches the request,
\* or a newly allocated one appended to the registry.
C11_MismatchedBufferNotReturned ==
    [][AllocateBufferReturns =>
         \A i \in DOMAIN buffers :
            LET r == lastMem'.request
                bytes == roundUpBytes(r.bytes)
                B == buffers[i]
            IN (IsUnreferenced(B)
                  /\ (B.size # bytes \/ B.usage # r.usage \/ B.memUsage # r.memUsage))
                  => /\ lastMem'.index # i
                     /\ IF lastMem'.created
                        THEN /\ lastMem'.index = Len(buffers) + 1
                             /\ Len(buffers') = Len(buffers) + 1
                        ELSE BufferAvailable(buffers[lastMem'.index], bytes,
                                             r.usage, r.memUsage)]_vars

\* a call has allocated a new buffer while a released buffer of the same
\* usage and memory usage and of another size was in the registry
C11_Witness ==
    /\ lastMem.op = "allocateBuffer"
    /\ lastMem.created
    /\ \E i \in 1 .. (lastMem.index - 1) :
          /\ IsUnreferenced(buffers[i])
          /\ buffers[i].size # buffers[lastMem.index].size
          /\ buffers[i].usage = buffers[lastMem.index].usage
          /\ buffers[i].memUsage = buffers[lastMem.index].memUsage

\* C12: with maxSetsPerPool = N >= 1, a step of allocateDescriptorSet that
\* adds a pool is taken only when every existing pool has N sets allocated
\* from it and it adds exactly one pool, and a step that adds a set to an
\* existing pool is taken only when that pool had fewer than N sets
\* allocated, so a full pool serves nothing until it is reset.
C12_NewPoolOnlyWhenAllFull ==
    [][/\ (m_createInfo_maxSets >= 1 /\ DOMAIN m_poolInfos' # DOMAIN m_poolInfos) =>
            /\ \A p \in DOMAIN m_poolInfos :
                 Cardinality(m_poolInfos[p].allocatedSets) = m_createInfo_maxSets
            /\ Cardinality(DOMAIN m_poolInfos') = Cardinality(DOMAIN m_poolInfos) + 1
       /\ \A p \in DOMAIN m_poolInfos :
            ~(m_poolInfos'[p].allocatedSets \subseteq m_poolInfos[p].allocatedSets) =>
                Cardinality(m_poolInfos[p].allocatedSets) < m_createInfo_maxSets]_vars

\* the first pool is full and a second pool, created for the next
\* allocation, has served it
C12_Witness ==
    /\ m_createInfo_maxSets >= 1
    /\ lastPoolOp.op = "allocateDescriptorSet"
    /\ DOMAIN m_poolInfos = {1, 2}
    /\ Cardinality(m_poolInfos[1].allocatedSets) = m_createInfo_maxSets
    /\ m_poolInfos[1].returnedSets = {}
    /\ Cardinality(m_poolInfos[2].allocatedSets) = 1

\* C13: the step that releases the last checked-out set of a full pool
\* leaves that pool with no allocated and no returned set, so it has room
\* for N allocations at once, and no step taken while some pool has room
\* adds a pool.
C13_ReleasedPoolReusable ==
    [][/\ \A p \in DOMAIN m_poolInfos :
            (/\ Cardinality(m_poolInfos[p].allocatedSets) = m_createInfo_maxSets
             /\ checkedOut \cap m_poolInfos[p].allocatedSets # {}
             /\ checkedOut' \cap m_poolInfos[p].allocatedSets = {}) =>
                /\ m_poolInfos'[p] = PoolInfo(m_createInfo_maxSets)
                /\ vkLiveSets'[p] = {}
       /\ (\E p \in DOMAIN m_poolInfos : HasRoom(m_poolInfos[p])) =>
              DOMAIN m_poolInfos' = DOMAIN m_poolInfos]_vars

\* releaseToPool has just reset a pool of two sets after its second set
\* came back
C13_Witness ==
    /\ m_createInfo_maxSets = 2
    /\ lastPoolOp.op = "releaseToPool"
    /\ lastPoolOp.reset # {}
    /\ \A p \in lastPoolOp.reset : m_poolInfos[p] = PoolInfo(m_createInfo_maxSets)

\* rounding up in the integers, without the wrap-around of VkDeviceSize
ExactRoundUp(numToRound, multiple) ==
    ((numToRound + multiple - 1) \div multiple) * multiple

\* the positions at which a maximal run of adjacent free entries starts
RunHeads(allocs) ==
    {h \in 1 .. Len(allocs) :
        IsFree(allocs[h]) /\ (h = 1 \/ ~IsFree(allocs[h - 1]))}

\* the bytes of the run of free entries that starts at position h
RECURSIVE RunSize(_, _)
RunSize(allocs, h) ==
    IF h > Len(allocs) \/ ~IsFree(allocs[h]) THEN 0
    ELSE allocs[h].m_allocationSize + RunSize(allocs, h + 1)

\* the run at h holds s bytes once its start is aligned and its end is
\* rounded up to the alignment and then to the chunk size
RunFits(allocs, h, s, alignment, chunk) ==
    LET firstByte == allocs[h].m_allocationOffset
        alignedBegin == ExactRoundUp(firstByte, alignment)
        alignedEnd == ExactRoundUp(alignedBegin + s, alignment)
        lastByte == ExactRoundUp(alignedEnd, chunk)
    IN lastByte - firstByte <= RunSize(allocs, h)

\* C14: allocate(size, alignment) returns a null handle exactly when no
\* maximal run of adjacent free entries holds the request after its start
\* is aligned and its end is rounded up to the alignment and then to the
\* chunk size; when such a run exists allocate succeeds.
C14_NullExactlyWhenNothingFits ==
    \A s \in RequestSizes, alignment \in Alignments :
        allocate(m_allocations, s, alignment, m_allocationChunkSize).ok
            <=> (\E h \in RunHeads(m_allocations) :
                    RunFits(m_allocations, h, s, alignment, m_allocationChunkSize))

\* the number of entries of the run of free entries that starts at h
RECURSIVE RunLength(_, _)
RunLength(allocs, h) ==
    IF h > Len(allocs) \/ ~IsFree(allocs[h]) THEN 0
    ELSE 1 + RunLength(allocs, h + 1)

\* the list from position h on with every run of two or more adjacent free
\* entries replaced by its first entry, grown to the bytes of the run
RECURSIVE CollapsedFrom(_, _)
CollapsedFrom(allocs, h) ==
    IF h > Len(allocs) THEN <<>>
    ELSE IF ~IsFree(allocs[h]) THEN <<allocs[h]>> \o CollapsedFrom(allocs, h + 1)
    ELSE LET n == RunLength(allocs, h)
             bytes == RunSize(allocs, h)
             E == IF n = 1 THEN allocs[h]
                  ELSE [allocs[h] EXCEPT !.m_allocationSize = bytes, !.m_size = bytes]
         IN <<E>> \o CollapsedFrom(allocs, h + n)

Collapsed(allocs) == CollapsedFrom(allocs, 1)

\* C15 as stated: an allocate call that returns null leaves the list as it
\* was, with the same entries at the same allocationOffset and
\* allocationSize.
C15_FailedAllocateChangesNothing ==
    \A s \in RequestSizes, alignment \in Alignments :
        LET r == allocate(m_allocations, s, alignment, m_allocationChunkSize)
        IN ~r.ok => r.allocs = m_allocations

\* C15, amended: an allocate call that returns null leaves every held entry
\* as it was and every run of adjacent free entries merged into one entry
\* of the run's offset and the run's bytes.
C15_FailedAllocateOnlyMerges ==
    \A s \in RequestSizes, alignment \in Alignments :
        LET r == allocate(m_allocations, s, alignment, m_allocationChunkSize)
        IN ~r.ok => r.allocs = Collapsed(m_allocations)

\* a request fails on a list that holds two adjacent free entries
C15_Witness ==
    \E s \in RequestSizes, alignment \in Alignments :
        LET r == allocate(m_allocations, s, alignment, m_allocationChunkSize)
        IN /\ ~r.ok
           /\ \E h \in 1 .. Len(m_allocations) - 1 :
                IsFree(m_allocations[h]) /\ IsFree(m_allocations[h + 1])
           /\ Len(r.allocs) < Len(m_allocations)

\* C16: mergeFreeAllocations replaces every maximal run of adjacent free
\* entries by one free entry with the run's first allocationOffset and the
\* sum of the run's allocationSizes and leaves the held entries alone, so
\* no two adjacent entries of the result are both free, a list without a
\* held entry collapses to one entry, and a second call changes nothing.
C16_MergeCollapsesRuns ==
    LET merged == mergeFreeAllocations(m_allocations)
    IN /\ merged = Collapsed(m_allocations)
       /\ \A h \in RunHeads(m_allocations) :
            \E k \in 1 .. Len(merged) :
               /\ IsFree(merged[k])
               /\ merged[k].m_allocationOffset = m_allocations[h].m_allocationOffset
               /\ merged[k].m_allocationSize = RunSize(m_allocations, h)
       /\ \A k \in 1 .. Len(merged) - 1 : ~(IsFree(merged[k]) /\ IsFree(merged[k + 1]))
       /\ (\A h \in 1 .. Len(m_allocations) : IsFree(m_allocations[h])) => Len(merged) = 1
       /\ mergeFreeAllocations(merged) = merged

\* a held entry followed by two free entries, which mergeFreeAllocations
\* makes one
C16_Witness ==
    /\ Len(m_allocations) = 3
    /\ ~IsFree(m_allocations[1])
    /\ IsFree(m_allocations[2])
    /\ IsFree(m_allocations[3])
    /\ Len(mergeFreeAllocations(m_allocations)) = 2

\* C17: a freeUnusedBuffers call removes from the registry exactly the
\* buffers whose only owner is the registry, leaves the others untouched and
\* returns the number it removed; freeUnusedImages does the same for the
\* images.
C17_FreeUnusedReclaims ==
    [][/\ lastMem'.op = "freeUnusedBuffers" =>
            /\ buffers' = SelectSeq(buffers, LAMBDA B : ~IsUnreferenced(B))
            /\ lastMem'.request = Len(buffers) - Len(buffers')
       /\ lastMem'.op = "freeUnusedImages" =>
            /\ images' = SelectSeq(images, LAMBDA I : ~IsUnreferenced(I))
            /\ lastMem'.request = Len(images) - Len(images')]_vars

\* two pools exist and a releaseToPool call has just taken back the last
\* set that was out
AllSetsReleased ==
    /\ DOMAIN m_poolInfos = {1, 2}
    /\ checkedOut = {}
    /\ lastPoolOp.op = "releaseToPool"
    /\ \/ lastPoolOp.reset # {}
       \/ \E p \in DOMAIN m_poolInfos : m_poolInfos[p].returnedSets # {}

\* C18: with maxSetsPerPool = 3, an allocation from the first pool while it
\* has fewer than 3 sets leaves the pool count at 1 and the allocation after
\* its third set makes it 2; once every set has been released both pools
\* are resettable, and after resetAllAvailablePools() both report zero
\* allocated sets.
C18_ThreeSetsPerPoolScenario ==
    [][m_createInfo_maxSets = 3 =>
          /\ (/\ DOMAIN m_poolInfos = {1}
              /\ checkedOut \subseteq checkedOut'
              /\ checkedOut' # checkedOut) =>
                 Cardinality(DOMAIN m_poolInfos') =
                    IF Cardinality(m_poolInfos[1].allocatedSets) < 3 THEN 1 ELSE 2
          /\ AllSetsReleased =>
                 \A p \in DOMAIN m_poolInfos : isResetable(m_poolInfos[p])
          /\ (AllSetsReleased /\ lastPoolOp'.op = "resetAllAvailablePools") =>
                 \A p \in DOMAIN m_poolInfos' :
                    /\ allocatedSetsCount(m_poolInfos'[p]) = 0
                    /\ m_poolInfos'[p].allocatedSets = {}]_vars

\* C19: in every reachable state allocatedSetsCount(pool) is the number of
\* sets checked out of that pool: allocated from it since its last reset
\* and not yet returned.
C19_AllocatedSetsCountIsCheckedOut ==
    \A p \in DOMAIN m_poolInfos :
        allocatedSetsCount(m_poolInfos[p]) =
            Cardinality({s \in checkedOut : s \in DOMAIN m_setToPool /\ m_setToPool[s] = p})

\* C20: for every maxSetsPerPool that init takes, an allocateDescriptorSet
\* call ends after it has created at most one pool and retried the
\* allocation at most once: no call leaves more than one pool more than it
\* found.
C20_AtMostOneNewPoolPerCall ==
    [][Cardinality(DOMAIN m_poolInfos') <= Cardinality(DOMAIN m_poolInfos) + 1]_vars

CreateFailed(c) == c.op = "create" /\ c.obj = NullHandle

ProducedHandles == {firstHandle[d] : d \in DOMAIN firstHandle}

\* C23: for every descriptor d created by this cache, getCreateInfo of the
\* handle create(d) returned is d, and getCreateInfo of a handle the cache
\* did not produce finds nothing and throws.
C23_GetCreateInfoInvertsCreate ==
    /\ \A d \in DOMAIN firstHandle : getCreateInfo(firstHandle[d]) = {d}
    /\ \A h \in (0 .. (MaxObjects + 1)) \ ProducedHandles : getCreateInfo(h) = {}

(***************************************************************************)
(* Further claims about the arena.                                         *)
(***************************************************************************)
\* C24: every entry of the arena, held or free, has an allocationSize that
\* is a multiple of the chunk size, for every buffer size and chunk size
\* handed to setBuffer and after any sequence of allocate, release and
\* mergeFreeAllocations.
C24_AllocationSizeMultipleOfChunk ==
    \A i \in 1 .. Len(m_allocations) :
        m_allocations[i].m_allocationSize % m_allocationChunkSize = 0

\* C25: setBuffer(h, chunkSize) leaves the arena with exactly one free
\* entry spanning [0, size of h), whatever entries the arena held before
\* the call.
C25_SetBufferResets ==
    \A size \in BufferSizes :
        setBuffer(m_allocations, size) = SetBufferList(size)

(***************************************************************************)
(* Further claims about the memory cache.                                  *)
(***************************************************************************)
\* the registered image I is unreferenced outside the registry and has the
\* extent, format, view type, layers, mip levels of request r and its usage
\* with the sampled and transfer bits added
ImageFitsRequest(I, r) ==
    /\ UseCount(I) = 1
    /\ I.extent = r.extent
    /\ I.format = r.format
    /\ I.viewType = r.viewType
    /\ I.arrayLayers = r.layers
    /\ I.mipLevels = r.mipMaps
    /\ I.usage = r.usage \cup {"SAMPLED", "TRANSFER_SRC", "TRANSFER_DST"}

IsRandomAccessStorageRequest(r) ==
    /\ r.usage = StorageUsage
    /\ r.memUsage = "AUTO_PREFER_HOST"
    /\ r.allocFlags = {"HOST_ACCESS_RANDOM"}

\* C27: the buffer allocateStorageBuffer(bytes, mappable = true,
\* randomAccess = true) returns was allocated with random host access and
\* not for sequential writes, also when it is a buffer that an earlier call
\* allocated and released.
C27_RandomAccessBufferReturned ==
    (/\ lastMem.op = "allocateBuffer"
     /\ ~lastMem.threw
     /\ IsRandomAccessStorageRequest(lastMem.request)) =>
        /\ "HOST_ACCESS_RANDOM" \in buffers[lastMem.index].allocFlags
        /\ "HOST_ACCESS_SEQUENTIAL_WRITE" \notin buffers[lastMem.index].allocFlags

\* the free entries that, with the free entries after them merged in, pass
\* the capacity test of allocate for a request of s bytes
FreeEntriesLargeEnough(allocs, s, alignment, chunk) ==
    {j \in 1 .. Len(allocs) :
        /\ IsFree(allocs[j])
        /\ LET firstByte == allocs[j].m_allocationOffset
               alignedBegin == RoundUp(firstByte, alignment)
               alignedEnd == RoundUp(UAdd(alignedBegin, s), alignment)
               lastByte == RoundUp(alignedEnd, chunk)
           IN RunSize(allocs, j) >= USub(lastByte, firstByte)}

\* every entry but the last is held: the list of an arena from which
\* nothing has been released
OnlyTailFree(allocs) == \A j \in 1 .. Len(allocs) - 1 : ~IsFree(allocs[j])

\* allocate carves from the last of the free entries that are large enough
\* after forward merging
CarvesFromLastLargeEnough(allocs, s, alignment, chunk) ==
    LET r == allocate(allocs, s, alignment, chunk)
        fit == FreeEntriesLargeEnough(allocs, s, alignment, chunk)
    IN /\ r.ok <=> fit # {}
       /\ r.ok =>
            LET j == CHOOSE x \in fit : \A y \in fit : y <= x
            IN /\ r.at = j
               /\ r.allocs[r.at].m_allocationOffset = allocs[j].m_allocationOffset
               /\ SubSeq(r.allocs, 1, j - 1) = SubSeq(allocs, 1, j - 1)
               /\ (Cardinality({x \in 1 .. Len(allocs) : IsFree(allocs[x])}) = 1) =>
                     \A x \in 1 .. Len(allocs) :
                        IsFree(allocs[x]) =>
                           r.allocs[r.at].m_allocationOffset = allocs[x].m_allocationOffset

\* C28 as stated: allocate carves from the start of the last free entry
\* that is large enough after forward merging, so in an arena from which
\* nothing has been released a new allocation lies at a strictly higher
\* offset than every allocation made before, and with a single free entry
\* the new allocation takes that entry's allocationOffset.
C28_TailFirstStrictlyIncreasing ==
    \A s \in RequestSizes, alignment \in Alignments :
        /\ CarvesFromLastLargeEnough(m_allocations, s, alignment, m_allocationChunkSize)
        /\ LET r == allocate(m_allocations, s, alignment, m_allocationChunkSize)
           IN (r.ok /\ OnlyTailFree(m_allocations)) =>
                 \A j \in 1 .. Len(m_allocations) - 1 :
                    /\ r.allocs[r.at].m_offset > m_allocations[j].m_offset
                    /\ r.allocs[r.at].m_allocationOffset > m_allocations[j].m_allocationOffset

\* C28, amended: the same, with the new allocation starting where the
\* allocation before it ends, which is a strictly higher allocationOffset
\* only when that allocation's allocationSize is not zero.
C28_TailFirstIncreasing ==
    \A s \in RequestSizes, alignment \in Alignments :
        /\ CarvesFromLastLargeEnough(m_allocations, s, alignment, m_allocationChunkSize)
        /\ LET r == allocate(m_allocations, s, alignment, m_allocationChunkSize)
           IN (r.ok /\ OnlyTailFree(m_allocations)) =>
                 \A j \in 1 .. Len(m_allocations) - 1 :
                    /\ r.allocs[r.at].m_offset >= m_allocations[j].m_offset
                    /\ r.allocs[r.at].m_allocationOffset >=
                          m_allocations[j].m_allocationOffset + m_allocations[j].m_allocationSize
                    /\ (j = Len(m_allocations) - 1) =>
                          r.allocs[r.at].m_allocationOffset =
                             m_allocations[j].m_allocationOffset + m_allocations[j].m_allocationSize

\* a request fits two free entries that are apart and is carved from the
\* one nearer the tail
C28_Witness ==
    \E s \in RequestSizes, alignment \in Alignments :
        LET r == allocate(m_allocations, s, alignment, m_allocationChunkSize)
            fit == FreeEntriesLargeEnough(m_allocations, s, alignment, m_allocationChunkSize)
        IN /\ r.ok
           /\ s > 0
           /\ \E x, y \in fit : x + 1 < y /\ ~IsFree(m_allocations[x + 1]) /\ r.at = y

\* a successful allocate has put a held entry with the given offset, size
\* and allocationSize at the position of the free entry E it carved, has
\* left after it what remains of E (E with the free entries after it merged
\* in), or nothing when no byte remains, and has kept the entries before it
CarvedWith(allocs, r, alignment, offset, size, allocationSize) ==
    LET j == r.at
        firstByte == allocs[j].m_allocationOffset
        bytes == RunSize(allocs, j)
        rest == bytes - allocationSize
        restOff == firstByte + allocationSize
        B == SubBuffer(firstByte, allocationSize, offset, size, alignment, 1)
        E == SubBuffer(restOff, rest, restOff, rest, 1, 0)
    IN /\ IsFree(allocs[j])
       /\ r.allocs = SubSeq(allocs, 1, j - 1)
                        \o <<B>>
                        \o (IF rest = 0 THEN <<>> ELSE <<E>>)
                        \o CollapsedFrom(allocs, j + RunLength(allocs, j))

C30_AllocateTypedUsesAlignof ==
    \A T \in ElementTypes, count \in Counts :
        allocateTyped(m_allocations, T, count, m_allocationChunkSize) =
            allocate(m_allocations, (T.size * count) % DeviceSizeMod, T.align,
                     m_allocationChunkSize)

\* C30, amended: allocateTyped<T>(count) returns the handle and leaves the
\* list of allocate(sizeof(T) * count, sizeof(T)): the handle's alignment
\* is sizeof(T) and its offset a multiple of sizeof(T), also for a type
\* whose size differs from its alignment.
C30_AllocateTypedUsesSizeof ==
    \A T \in ElementTypes, count \in Counts :
        LET d == allocateTyped(m_allocations, T, count, m_allocationChunkSize)
        IN /\ d = allocate(m_allocations, (T.size * count) % DeviceSizeMod, T.size,
                           m_allocationChunkSize)
           /\ d.ok =>
                /\ d.allocs[d.at].m_alignment = T.size
                /\ d.allocs[d.at].m_offset % T.size = 0
                /\ d.allocs[d.at].m_size = T.size * count

\* an allocation aligned to three bytes is held, and a typed allocation of
\* elements of size 3 and alignment 1 lands at another offset than the
\* allocation of the same bytes aligned to 1
C30_Witness ==
    /\ \E j \in 1 .. Len(m_allocations) :
          /\ ~IsFree(m_allocations[j])
          /\ m_allocations[j].m_alignment = 3
          /\ m_allocations[j].m_size > 0
    /\ \E T \in ElementTypes, count \in Counts :
          LET d == allocateTyped(m_allocations, T, count, m_allocationChunkSize)
              a == allocate(m_allocations, (T.size * count) % DeviceSizeMod, T.align,
                            m_allocationChunkSize)
          IN /\ T.size # T.align
             /\ count > 0
             /\ d.ok /\ a.ok
             /\ d.allocs[d.at].m_offset # a.allocs[a.at].m_offset

\* C31: when the arena cannot satisfy the request, allocateTyped<T>(count)
\* returns a null handle, as allocate does, and never faults.
C31_AllocateTypedFailsWithNull ==
    \A T \in ElementTypes, count \in Counts :
        LET d == allocateTyped(m_allocations, T, count, m_allocationChunkSize)
        IN ~d.ok => AllocateTypedOutcomes(d) = {"null"}

\* C32: when the backend fails to create the image on a reuse miss,
\* allocateTexture reports an error to the caller and registers no image:
\* getAllocatedTextureCount() is unchanged.
C32_FailedImageCreateReported ==
    [][AllocateTextureCreateFails =>
          /\ lastMem'.op = "allocateTexture"
          /\ lastMem'.threw
          /\ Len(images') = Len(images)]_vars

\* C33: every handle returned by allocateBuffer refers to a buffer whose
\* backend object is live, after any sequence of allocateBuffer calls,
\* handle releases and freeUnusedBuffers calls.
C33_ReturnedBufferIsLive ==
    (lastMem.op = "allocateBuffer" /\ ~lastMem.threw)
        => buffers[lastMem.index].buffer # NullBuffer

\* C34: for every handle returned by allocate the caller-visible range
\* lies inside the reserved range: allocationOffset <= offset and
\* offset + size <= allocationOffset + allocationSize.
C34_VisibleRangeInsideReserved ==
    \A j \in 1 .. Len(m_allocations) :
        ~IsFree(m_allocations[j]) =>
            /\ m_allocations[j].m_allocationOffset <= m_allocations[j].m_offset
            /\ m_allocations[j].m_offset + m_allocations[j].m_size
                  <= m_allocations[j].m_allocationOffset + m_allocations[j].m_allocationSize

(***************************************************************************)
(* Further claims about the descriptor pool manager.                       *)
(***************************************************************************)
\* ceil(a / b) for b >= 1
CeilDiv(a, b) == (a + b - 1) \div b

\* C35: the manager never holds more pools than the peak number of sets
\* checked out at one time requires: allocatedPoolCount() <=
\* max(1, ceil(P / maxSetsPerPool)), P being that peak so far.
C35_PoolCountWithinPeakDemand ==
    m_createInfo_maxSets >= 1 =>
        LET needed == CeilDiv(peakCheckedOut, m_createInfo_maxSets)
        IN Cardinality(DOMAIN m_poolInfos) <= (IF needed > 1 THEN needed ELSE 1)

(***************************************************************************)
(* Claims about the texture map.                                           *)
(***************************************************************************)
\* C36: after any sequence of insertTexture, removeTexture(handle) and
\* removeTexture(index) with index > 0, every inserted texture occupies
\* exactly one slot, no two inserted textures share an index, slot 0 holds
\* the null texture, and the free-index list has no duplicate and no
\* occupied index.
C36_TextureMapConsistent ==
    lastTexOp.op # "abort" =>
        /\ \A t \in DOMAIN m_textureToIndex :
              {i \in Slots : m_textures[i] = t} = {m_textureToIndex[t]}
        /\ \A t, u \in DOMAIN m_textureToIndex :
              t # u => m_textureToIndex[t] # m_textureToIndex[u]
        /\ m_textures[0] = NullTextureHandle
        /\ \A k, l \in DOMAIN m_freeIndices :
              k # l => m_freeIndices[k] # m_freeIndices[l]
        /\ \A k \in DOMAIN m_freeIndices :
              m_textures[m_freeIndices[k]] = NullTextureHandle

(***************************************************************************)
(* Claims about the storage cursor of a buffer.                            *)
(***************************************************************************)
\* C37: pushStorage never writes outside the buffer: the bytes written are
\* [i * sizeof(T), (i + count) * sizeof(T)), i being the index returned, and
\* they lie inside [0, getBufferSize()).
C37_PushStorageInsideBuffer ==
    lastPush.op = "pushStorage" =>
        /\ lastPush.start = lastPush.index * lastPush.sizeofT
        /\ lastPush.bytes = lastPush.count * lastPush.sizeofT
        /\ lastPush.start + lastPush.bytes <= bufferSize

\* resetAllAvailablePools(false) leaves every pool, the set map and the
\* backend's sets as they are
ResetAvailablePoolsChangesNothing ==
    ResetAvailablePools =>
        /\ m_poolInfos' = m_poolInfos
        /\ m_setToPool' = m_setToPool
        /\ vkLiveSets' = vkLiveSets
        /\ lastPoolOp'.reset = {}

C39_ManagersObservationallyEquivalent == SameReports /\ SameResets

====
